---------------------------- MODULE Spec2Model ----------------------------
(***************************************************************************)
(* Model of the HLS manifest pipeline of m3u8_lib:                         *)
(*   - HlsConverter.convertToHls      (src/lib/core/converter.ts)          *)
(*   - M3U8Builder                    (src/lib/utils/m3u8-builder.ts)      *)
(*   - AudioManager.generateHlsWithAudio, SubtitleManager.                 *)
(*     generateHlsWithSubtitles       (src/lib/modules/*.ts)               *)
(*   - M3U8Handler.optimizeMasterPlaylist (src/routes/streaming.ts)        *)
(*                                                                         *)
(* Text is modelled as text: a JavaScript string is a sequence of          *)
(* one-character strings, a file is the sequence of its lines              *)
(* (content.split('\n')), and the absent file is the empty sequence        *)
(* (split never returns it).                                               *)
(***************************************************************************)
EXTENDS Integers, Sequences, FiniteSets, TLC

VARIABLES
    resolutions,         \* this.options.resolutions of the HlsConverter
    phase,               \* position of the convertToHls call
    metadata,            \* VideoMetadata returned by getVideoMetadata
    targetResolutions,   \* the planned renditions of the call
    processingPromises,  \* state of each processResolution promise
    successfulResults,   \* collected after Promise.allSettled
    errors,              \* number of collected rejection reasons
    rejection,           \* the error convertToHls rejected with
    masterFile,          \* lines of the stored master.m3u8 (<<>>: no file)
    calls,               \* number of convertToHls calls made
    builder,             \* M3U8Builder: [mediaTracks, streamInfos]
    attached,            \* attach calls applied to masterFile, in order
    served,              \* last text returned by the optimizer
    optIn,               \* manifest handed to the optimizer (pure check)
    optOnce,             \* optimizeMasterPlaylist(optIn)
    optTwice,            \* optimizeMasterPlaylist(optOnce)
    demoFile,            \* lines of example-output/real-world-demo/master.m3u8
    audioCache,          \* M3U8Handler.audioCache (keys of the static Map)
    responses,           \* responses of GET /:videoId/master.m3u8, in order
    audioUri,            \* normalizeAudioUri: [in, once, twice] (pure check)
    built                \* texts build() returned since the last add or clear

vars == <<resolutions, phase, metadata, targetResolutions, processingPromises,
          successfulResults, errors, rejection, masterFile, calls,
          builder, attached, served, optIn, optOnce, optTwice,
          demoFile, audioCache, responses, audioUri, built>>

convVars == <<resolutions, phase, metadata, targetResolutions,
              processingPromises, successfulResults, errors, rejection, calls>>
optVars == <<optIn, optOnce, optTwice>>
ioVars == <<demoFile, audioCache, responses, audioUri, built>>

----------------------------------------------------------------------------
(* Bounds of the model.                                                    *)

MaxCalls == 2
MaxAttach == 3
MaxStreams == 2
MaxOptLines == 5

----------------------------------------------------------------------------
(* JavaScript string primitives.                                           *)

StartsWith(s, p) ==
    /\ Len(s) >= Len(p)
    /\ SubSeq(s, 1, Len(p)) = p

EndsWith(s, p) ==
    /\ Len(s) >= Len(p)
    /\ SubSeq(s, Len(s) - Len(p) + 1, Len(s)) = p

\* String.prototype.indexOf, 1-based; 0 when p does not occur in s.
IndexFrom(s, p, from) ==
    LET hits == { i \in from..(Len(s) - Len(p) + 1) : SubSeq(s, i, i + Len(p) - 1) = p }
    IN  IF hits = {} THEN 0 ELSE CHOOSE i \in hits : \A j \in hits : i <= j

IndexOf(s, p) == IndexFrom(s, p, 1)

Includes(s, p) == IndexOf(s, p) # 0

\* String.prototype.replace(pattern: string, replacement): first occurrence.
ReplaceFirst(s, p, r) ==
    LET i == IndexOf(s, p)
    IN  IF i = 0 THEN s
        ELSE SubSeq(s, 1, i - 1) \o r \o SubSeq(s, i + Len(p), Len(s))

DigitChars == <<"0", "1", "2", "3", "4", "5", "6", "7", "8", "9">>

IsDigit(c) == \E d \in 1..10 : DigitChars[d] = c

DigitVal(c) == (CHOOSE d \in 1..10 : DigitChars[d] = c) - 1

\* String(n) / `${n}` of a non-negative integer.
RECURSIVE Digits(_)
Digits(n) ==
    IF n < 10 THEN <<DigitChars[n + 1]>>
    ELSE Digits(n \div 10) \o <<DigitChars[(n % 10) + 1]>>

\* String(n) / `${n}` of an integer.
NumberToString(n) == IF n < 0 THEN <<"-">> \o Digits(0 - n) ELSE Digits(n)

RECURSIVE SkipWs(_, _)
SkipWs(s, i) ==
    IF i <= Len(s) /\ s[i] \in {" ", "\t", "\n", "\r"} THEN SkipWs(s, i + 1) ELSE i

RECURSIVE DigitRun(_, _, _)
DigitRun(s, i, acc) ==
    IF i <= Len(s) /\ IsDigit(s[i]) THEN DigitRun(s, i + 1, acc * 10 + DigitVal(s[i]))
    ELSE acc

\* parseInt(s) in radix 10: leading white space, an optional sign, then the
\* longest run of digits; NaN when there is no digit.
ParseInt(s) ==
    LET i0 == SkipWs(s, 1)
        neg == i0 <= Len(s) /\ s[i0] = "-"
        i1 == IF i0 <= Len(s) /\ s[i0] \in {"+", "-"} THEN i0 + 1 ELSE i0
        has == i1 <= Len(s) /\ IsDigit(s[i1])
        v == DigitRun(s, i1, 0)
    IN  [nan |-> ~has, n |-> IF ~has THEN 0 ELSE IF neg THEN 0 - v ELSE v]

\* Array.prototype.sort with a consistent numeric comparator (stable);
\* keys[i] is the number the comparator reads from s[i].
StableSortBy(s, keys) ==
    LET n == Len(s)
        rank(i) == 1 + Cardinality({ j \in 1..n :
                        \/ keys[j] < keys[i]
                        \/ keys[j] = keys[i] /\ j < i })
    IN  [r \in 1..n |-> s[CHOOSE i \in 1..n : rank(i) = r]]

Reorderings(s) ==
    LET n == Len(s)
        bij == { p \in [1..n -> 1..n] : \A i, j \in 1..n : p[i] = p[j] => i = j }
    IN  { [i \in 1..n |-> s[p[i]]] : p \in bij }

\* content.split('\n') of one line that may itself hold line breaks.
RECURSIVE SplitNL(_)
SplitNL(s) ==
    LET i == IndexOf(s, <<"\n">>)
    IN  IF i = 0 THEN <<s>>
        ELSE <<SubSeq(s, 1, i - 1)>> \o SplitNL(SubSeq(s, i + 1, Len(s)))

\* fs.writeFile(lines.join('\n')) followed by readFile(...).split('\n').
RECURSIVE WriteFile(_)
WriteFile(lines) ==
    IF lines = <<>> THEN <<>>
    ELSE SplitNL(Head(lines)) \o WriteFile(Tail(lines))

----------------------------------------------------------------------------
(* Manifest text constants.                                                *)

EXTM3U ==
    <<"#","E","X","T","M","3","U">>
EXT_X_VERSION ==
    <<"#","E","X","T","-","X","-","V","E","R","S","I","O","N">>
EXT_X_STREAM_INF ==
    <<"#","E","X","T","-","X","-","S","T","R","E","A","M","-","I","N","F">>
BANDWIDTH_ATTR ==
    <<"B","A","N","D","W","I","D","T","H","=">>
RESOLUTION_ATTR ==
    <<"R","E","S","O","L","U","T","I","O","N","=">>
CODECS_ATTR ==
    <<"C","O","D","E","C","S","=">>
codecs ==
    <<"a","v","c","1",".","4","2","E","0","1","E",",","m","p","4","a",".","4","0",".","2">>
proxyBaseUrlTemplate ==
    <<"h","t","t","p",":","/","/","l","o","c","a","l","h","o","s","t",":","3","0","0","0","/",
      "s","t","r","e","a","m","-","r","e","s","o","u","r","c","e","/",
      "{","b","a","s","e","P","a","t","h","}","{","v","i","d","e","o","I","d","}","/">>
resolutionPlaylistName ==
    <<"p","l","a","y","l","i","s","t",".","m","3","u","8">>
VIDEOID_TOKEN ==
    <<"{","v","i","d","e","o","I","d","}">>
BASEPATH_TOKEN ==
    <<"{","b","a","s","e","P","a","t","h","}">>
Q == <<"\"">>
COMMA == <<",">>

\* params of the modelled calls: { videoId: 'v1' }, basePath defaulted to ''.
videoId == <<"v","1">>
basePath == <<>>

----------------------------------------------------------------------------
(* HlsConverter: rendition planning.                                       *)

Rendition(name, size, bitrate) ==
    [name |-> name, size |-> size, bitrate |-> bitrate, isOriginal |-> FALSE]

SizeOf(md) == NumberToString(md.width) \o <<"x">> \o NumberToString(md.height)

originalResName(md) == NumberToString(md.height) \o <<"p">>

originalAlreadyDefined(res, md) ==
    \E i \in 1..Len(res) : res[i].name = originalResName(md)

isDifferent(res, md) ==
    ~ \E i \in 1..Len(res) : res[i].size = SizeOf(md)

NameKey(r) == ParseInt(r.name).n

\* targetResolutions.sort((a, b) => parseInt(a.name) - parseInt(b.name)):
\* with a NaN among the keys the comparator is inconsistent and the order
\* is implementation-defined.
SortByName(res) ==
    IF \E i \in 1..Len(res) : ParseInt(res[i].name).nan
    THEN Reorderings(res)
    ELSE { StableSortBy(res, [i \in 1..Len(res) |-> NameKey(res[i])]) }

\* The renditions array after planning: the configured objects are shared
\* between options.resolutions and targetResolutions, so marking
\* existingRes.isOriginal marks the configured rendition.
MarkOriginal(res, md) ==
    LET k == CHOOSE i \in 1..Len(res) :
                 /\ res[i].size = SizeOf(md)
                 /\ \A j \in 1..(i - 1) : res[j].size # SizeOf(md)
    IN  [res EXCEPT ![k].isOriginal = TRUE]

\* Set of possible [targets, resolutions] after lines 205-225.
Plan(res, md) ==
    IF ~originalAlreadyDefined(res, md) /\ md.width # 0 /\ md.height # 0
    THEN IF isDifferent(res, md)
         THEN { [targets |-> t, resolutions |-> res] :
                  t \in SortByName(Append(res,
                          [name |-> originalResName(md), size |-> SizeOf(md),
                           bitrate |-> md.bitrate, isOriginal |-> TRUE])) }
         ELSE { [targets |-> MarkOriginal(res, md),
                 resolutions |-> MarkOriginal(res, md)] }
    ELSE { [targets |-> res, resolutions |-> res] }

----------------------------------------------------------------------------
(* HlsConverter: encode jobs and the master playlist.                      *)

\* const bandwidth = parseInt(String(bitrate).replace('k', '')) * 1000 || 500000
Bandwidth(bitrate) ==
    LET p == ParseInt(ReplaceFirst(bitrate, <<"k">>, <<>>))
    IN  IF p.nan \/ p.n * 1000 = 0 THEN 500000 ELSE p.n * 1000

\* The value processResolution resolves with on ffmpeg's 'end' event.
ProcessedResolution(r) ==
    [name |-> r.name, size |-> r.size, bitrate |-> r.bitrate,
     bandwidth |-> Bandwidth(r.bitrate),
     playlistRelativePath |-> r.name \o <<"/">> \o resolutionPlaylistName]

newBasePath ==
    IF basePath # <<>>
    THEN IF EndsWith(basePath, <<"/">>) THEN basePath ELSE basePath \o <<"/">>
    ELSE <<>>

proxyBaseUrl ==
    ReplaceFirst(ReplaceFirst(proxyBaseUrlTemplate, VIDEOID_TOKEN, videoId),
                 BASEPATH_TOKEN, newBasePath)

BandwidthKey(r) == r.bandwidth

\* The results left in job order.
SortByBandwidth_jobOrder(results) == results

\* successfulResults.sort((a, b) => a.bandwidth - b.bandwidth)
SortByBandwidth(results) ==
    StableSortBy(results, [i \in 1..Len(results) |-> BandwidthKey(results[i])])

StreamInfLine(r) ==
    EXT_X_STREAM_INF \o <<":">> \o BANDWIDTH_ATTR \o NumberToString(r.bandwidth)
      \o COMMA \o RESOLUTION_ATTR \o r.size
      \o COMMA \o CODECS_ATTR \o Q \o codecs \o Q

RECURSIVE StreamLines(_)
StreamLines(results) ==
    IF results = <<>> THEN <<>>
    ELSE <<StreamInfLine(Head(results)),
           proxyBaseUrl \o Head(results).playlistRelativePath>>
         \o StreamLines(Tail(results))

\* masterPlaylistContent of lines 263-273, as written and read back: the
\* text ends with '\n', so its last line is empty.
MasterPlaylistContent(results) ==
    WriteFile(<<EXTM3U, EXT_X_VERSION \o <<":", "3">>>>
              \o StreamLines(SortByBandwidth(results)) \o <<<<>>>>)

\* Promise.all: resumes on the first rejection.
AllSettled_failFast(ps) ==
    \/ \E i \in 1..Len(ps) : ps[i] = "rejected"
    \/ \A i \in 1..Len(ps) : ps[i] = "fulfilled"

\* await Promise.allSettled(processingPromises) resumes.
AllSettled(ps) ==
    \A i \in 1..Len(ps) : ps[i] \in {"fulfilled", "rejected"}

RECURSIVE Fulfilled(_, _)
Fulfilled(ps, targets) ==
    IF ps = <<>> THEN <<>>
    ELSE (IF Head(ps) = "fulfilled" THEN <<ProcessedResolution(Head(targets))>> ELSE <<>>)
         \o Fulfilled(Tail(ps), Tail(targets))

Rejected(ps) == Cardinality({ i \in 1..Len(ps) : ps[i] = "rejected" })

----------------------------------------------------------------------------
(* Inputs of the converter.                                                *)

n360p == <<"3","6","0","p">>
n480p == <<"4","8","0","p">>
n720p == <<"7","2","0","p">>
s640x360 == <<"6","4","0","x","3","6","0">>
s640x480 == <<"6","4","0","x","4","8","0">>
s854x480 == <<"8","5","4","x","4","8","0">>
s1280x720 == <<"1","2","8","0","x","7","2","0">>
b800k == <<"8","0","0","k">>
b1100k == <<"1","1","0","0","k">>
b1200k == <<"1","2","0","0","k">>
b1500k == <<"1","5","0","0","k">>

\* options.resolutions the converter is constructed with.
ConfiguredLists ==
    { <<>>,
      <<Rendition(n480p, s854x480, b1200k)>>,
      <<Rendition(<<"s","d">>, s854x480, b1200k)>>,
      <<Rendition(n480p, s640x480, b800k)>>,
      <<Rendition(n360p, s640x360, b1500k), Rendition(n720p, s1280x720, b800k)>> }

\* Outcomes of the ffprobe call: a width or height of 0 stands for a
\* missing dimension.
Sources ==
    { [width |-> 854, height |-> 480, bitrate |-> b1100k],
      [width |-> 1280, height |-> 720, bitrate |-> b1100k],
      [width |-> 0, height |-> 480, bitrate |-> b1100k] }

NoMetadata == [width |-> 0, height |-> 0, bitrate |-> <<>>]
NoRejection == [kind |-> "none", count |-> 0]

----------------------------------------------------------------------------
(* HlsConverter.convertToHls, one action per suspension point.             *)

\* The failure check left out: partial results are published.
BatchFailed_never(errs) == FALSE

\* if (errors.length > 0) throw new Error(`... ${errors.length} ...`)
BatchFailed(errs) == errs > 0

\* convertToHls is entered; await ensureDirExists(outputDir) settles.
ConvertCall(dirOk) ==
    /\ phase \in {"idle", "resolved", "rejected"}
    /\ calls < MaxCalls
    /\ calls' = calls + 1
    /\ metadata' = NoMetadata
    /\ targetResolutions' = <<>>
    /\ processingPromises' = <<>>
    /\ successfulResults' = <<>>
    /\ errors' = 0
    /\ IF dirOk
       THEN phase' = "probing" /\ rejection' = NoRejection
       ELSE phase' = "rejected" /\ rejection' = [kind |-> "mkdir", count |-> 0]
    /\ UNCHANGED <<resolutions, masterFile, builder, attached, served, optVars, ioVars>>

\* ffprobe calls back with an error (or without data): the call rejects.
ProbeError ==
    /\ phase = "probing"
    /\ phase' = "rejected"
    /\ rejection' = [kind |-> "metadata", count |-> 0]
    /\ UNCHANGED <<resolutions, metadata, targetResolutions, processingPromises,
                   successfulResults, errors, masterFile, calls,
                   builder, attached, served, optVars, ioVars>>

\* ffprobe reports no video stream: the callback throws inside the promise
\* executor's callback, so the metadata promise is never settled.
ProbeNoVideoStream ==
    /\ phase = "probing"
    /\ phase' = "hung"
    /\ UNCHANGED <<resolutions, metadata, targetResolutions, processingPromises,
                   successfulResults, errors, rejection, masterFile, calls,
                   builder, attached, served, optVars, ioVars>>

\* ffprobe returns md: dimension check, planning (lines 205-225) and the
\* synchronous creation of every processResolution promise (lines 230-232).
ProbeReturn(md) ==
    /\ phase = "probing"
    /\ metadata' = md
    /\ IF md.width = 0 \/ md.height = 0
       THEN /\ phase' = "rejected"
            /\ rejection' = [kind |-> "metadata", count |-> 0]
            /\ UNCHANGED <<resolutions, targetResolutions, processingPromises>>
       ELSE /\ \E pl \in Plan(resolutions, md) :
                 /\ targetResolutions' = pl.targets
                 /\ resolutions' = pl.resolutions
                 /\ processingPromises' = [i \in 1..Len(pl.targets) |-> "mkdir"]
            /\ phase' = "awaiting"
            /\ UNCHANGED rejection
    /\ UNCHANGED <<successfulResults, errors, masterFile, calls,
                   builder, attached, served, optVars, ioVars>>

JobStep(i, from, to) ==
    /\ phase = "awaiting"
    /\ i \in 1..Len(processingPromises)
    /\ processingPromises[i] = from
    /\ processingPromises' = [processingPromises EXCEPT ![i] = to]
    /\ UNCHANGED <<resolutions, phase, metadata, targetResolutions,
                   successfulResults, errors, rejection, masterFile, calls,
                   builder, attached, served, optVars, ioVars>>

\* await this.ensureDirExists(resOutputDir) succeeds and ffmpeg is run.
JobRun(i) == JobStep(i, "mkdir", "ffmpeg")

\* ensureDirExists throws inside the async executor: neither resolve nor
\* reject is ever called for this promise.
JobDirFailed(i) == JobStep(i, "mkdir", "orphaned")

\* ffmpeg 'end' event.
JobEnd(i) == JobStep(i, "ffmpeg", "fulfilled")

\* ffmpeg 'error' event.
JobError(i) == JobStep(i, "ffmpeg", "rejected")

\* Promise.allSettled resumes the call: lines 237-289.
Settle(writeOk) ==
    /\ phase = "awaiting"
    /\ AllSettled(processingPromises)
    /\ LET ok == Fulfilled(processingPromises, targetResolutions)
           errs == Rejected(processingPromises)
       IN  /\ successfulResults' = ok
           /\ errors' = errs
           /\ IF BatchFailed(errs)
              THEN /\ phase' = "rejected"
                   /\ rejection' = [kind |-> "batch", count |-> errs]
                   /\ UNCHANGED masterFile
              ELSE IF Len(ok) = 0
              THEN /\ phase' = "rejected"
                   /\ rejection' = [kind |-> "empty", count |-> 0]
                   /\ UNCHANGED masterFile
              ELSE IF writeOk
              THEN /\ phase' = "resolved"
                   /\ masterFile' = MasterPlaylistContent(ok)
                   /\ UNCHANGED rejection
              ELSE /\ phase' = "rejected"
                   /\ rejection' = [kind |-> "write", count |-> 0]
                   /\ UNCHANGED masterFile
    /\ UNCHANGED <<resolutions, metadata, targetResolutions, processingPromises,
                   calls, builder, attached, served, optVars, ioVars>>

NoBuilder == [mediaTracks |-> <<>>, streamInfos |-> <<>>, threw |-> FALSE]

\* No request served, no URI normalized, no build() made; the static
\* audioCache Map is empty when the module is loaded.
InitIo ==
    /\ demoFile = <<>>
    /\ audioCache = {}
    /\ responses = <<>>
    /\ audioUri = <<>>
    /\ built = <<>>

InitConv ==
    /\ resolutions \in ConfiguredLists
    /\ phase = "idle"
    /\ metadata = NoMetadata
    /\ targetResolutions = <<>>
    /\ processingPromises = <<>>
    /\ successfulResults = <<>>
    /\ errors = 0
    /\ rejection = NoRejection
    /\ calls = 0

Init ==
    /\ InitConv
    /\ InitIo
    /\ masterFile = <<>>
    /\ builder = NoBuilder
    /\ attached = <<>>
    /\ served = <<>>
    /\ optIn = <<>>
    /\ optOnce = <<>>
    /\ optTwice = <<>>

Next ==
    \/ \E dirOk \in BOOLEAN : ConvertCall(dirOk)
    \/ ProbeError
    \/ ProbeNoVideoStream
    \/ \E md \in Sources : ProbeReturn(md)
    \/ \E i \in 1..Len(processingPromises) : JobRun(i)
    \/ \E i \in 1..Len(processingPromises) : JobDirFailed(i)
    \/ \E i \in 1..Len(processingPromises) : JobEnd(i)
    \/ \E i \in 1..Len(processingPromises) : JobError(i)
    \/ \E writeOk \in BOOLEAN : Settle(writeOk)

Spec == Init /\ [][Next]_vars

----------------------------------------------------------------------------
(* M3U8Builder (lib/utils/m3u8-builder.ts), constructed with no options.   *)

T_AUDIO ==
    <<"A","U","D","I","O">>
T_VIDEO ==
    <<"V","I","D","E","O">>
T_SUBTITLES ==
    <<"S","U","B","T","I","T","L","E","S">>
T_CLOSED_CAPTIONS ==
    <<"C","L","O","S","E","D","-","C","A","P","T","I","O","N","S">>
EXT_X_MEDIA ==
    <<"#","E","X","T","-","X","-","M","E","D","I","A">>

validTypes == {T_AUDIO, T_VIDEO, T_SUBTITLES, T_CLOSED_CAPTIONS}

\* this.version = options.version || 3
version == 3

RECURSIVE escapeValue(_)
escapeValue(value) ==
    IF value = <<>> THEN <<>>
    ELSE LET c == Head(value)
             e == CASE c = "\\" -> <<"\\", "\\">>
                    [] c = "\"" -> <<"\\", "\"">>
                    [] c = "\n" -> <<"\\", "n">>
                    [] c = "\r" -> <<"\\", "r">>
                    [] c = "\t" -> <<"\\", "t">>
                    [] OTHER -> <<c>>
         IN  e \o escapeValue(Tail(value))

Quoted(key, value) == key \o <<"=">> \o Q \o escapeValue(value) \o Q

RECURSIVE JoinWith(_, _)
JoinWith(parts, sep) ==
    IF parts = <<>> THEN <<>>
    ELSE IF Len(parts) = 1 THEN Head(parts)
    ELSE Head(parts) \o sep \o JoinWith(Tail(parts), sep)

YesNo(flag) == IF flag = "true" THEN <<"Y","E","S">> ELSE <<"N","O">>

buildMediaLine(track) ==
    LET attributes ==
            <<<<"T","Y","P","E","=">> \o track.type,
              Quoted(<<"G","R","O","U","P","-","I","D">>, track.groupId),
              Quoted(<<"N","A","M","E">>, track.name)>>
            \o (IF track.language # <<>>
                THEN <<Quoted(<<"L","A","N","G","U","A","G","E">>, track.language)>> ELSE <<>>)
            \o (IF track.isDefault # "undefined"
                THEN <<<<"D","E","F","A","U","L","T","=">> \o YesNo(track.isDefault)>> ELSE <<>>)
            \o (IF track.autoSelect # "undefined"
                THEN <<<<"A","U","T","O","S","E","L","E","C","T","=">> \o YesNo(track.autoSelect)>>
                ELSE <<>>)
            \o (IF track.uri # <<>> THEN <<Quoted(<<"U","R","I">>, track.uri)>> ELSE <<>>)
            \o (IF track.characteristics # <<>>
                THEN <<Quoted(<<"C","H","A","R","A","C","T","E","R","I","S","T","I","C","S">>,
                              track.characteristics)>> ELSE <<>>)
            \o (IF track.channels # <<>>
                THEN <<Quoted(<<"C","H","A","N","N","E","L","S">>, track.channels)>> ELSE <<>>)
    IN  EXT_X_MEDIA \o <<":">> \o JoinWith(attributes, COMMA)

buildStreamLine(streamInfo) ==
    LET attributes ==
            <<BANDWIDTH_ATTR \o NumberToString(streamInfo.bandwidth)>>
            \o (IF streamInfo.resolution # <<>>
                THEN <<RESOLUTION_ATTR \o streamInfo.resolution>> ELSE <<>>)
            \o (IF streamInfo.codecs # <<>>
                THEN <<Quoted(<<"C","O","D","E","C","S">>, streamInfo.codecs)>> ELSE <<>>)
            \o (IF streamInfo.frameRate # 0
                THEN <<<<"F","R","A","M","E","-","R","A","T","E","=">>
                       \o NumberToString(streamInfo.frameRate)>> ELSE <<>>)
            \o (IF streamInfo.audio # <<>>
                THEN <<Quoted(T_AUDIO, streamInfo.audio)>> ELSE <<>>)
            \o (IF streamInfo.video # <<>>
                THEN <<Quoted(T_VIDEO, streamInfo.video)>> ELSE <<>>)
            \o (IF streamInfo.subtitles # <<>>
                THEN <<Quoted(T_SUBTITLES, streamInfo.subtitles)>> ELSE <<>>)
            \o (IF streamInfo.closedCaptions # <<>>
                THEN <<Quoted(T_CLOSED_CAPTIONS, streamInfo.closedCaptions)>> ELSE <<>>)
    IN  EXT_X_STREAM_INF \o <<":">> \o JoinWith(attributes, COMMA)

\* [...this.streamInfos].sort((a, b) => a.bandwidth - b.bandwidth)
sortedStreams(streamInfos) ==
    StableSortBy(streamInfos, [i \in 1..Len(streamInfos) |-> BandwidthKey(streamInfos[i])])

RECURSIVE MediaLines(_)
MediaLines(tracks) ==
    IF tracks = <<>> THEN <<>>
    ELSE <<buildMediaLine(Head(tracks))>> \o MediaLines(Tail(tracks))

RECURSIVE BuilderStreamLines(_)
BuilderStreamLines(streams) ==
    IF streams = <<>> THEN <<>>
    ELSE <<buildStreamLine(Head(streams)), Head(streams).uri>>
         \o BuilderStreamLines(Tail(streams))

\* build(): the lines before lines.join('\n').
build(b) ==
    <<EXTM3U, EXT_X_VERSION \o <<":">> \o Digits(version)>>
    \o (IF Len(b.mediaTracks) > 0 \/ Len(b.streamInfos) > 0 THEN <<<<>>>> ELSE <<>>)
    \o MediaLines(b.mediaTracks)
    \o (IF Len(b.mediaTracks) > 0 /\ Len(b.streamInfos) > 0 THEN <<<<>>>> ELSE <<>>)
    \o BuilderStreamLines(sortedStreams(b.streamInfos))

\* /^\d+x\d+$/.test(resolution)
IsResolution(s) ==
    \E k \in 2..(Len(s) - 1) :
        /\ s[k] = "x"
        /\ \A i \in 1..(k - 1) : IsDigit(s[i])
        /\ \A i \in (k + 1)..Len(s) : IsDigit(s[i])

\* !uri.trim()
IsBlank(s) == \A i \in 1..Len(s) : s[i] \in {" ", "\t", "\n", "\r"}

MediaTrackAccepted(track) ==
    /\ track.type \in validTypes
    /\ track.groupId # <<>>
    /\ track.name # <<>>

\* addStreamInfo without the test on the sign of the bandwidth.
StreamInfoAccepted_anyBandwidth(streamInfo) ==
    /\ streamInfo.bandwidth # 0
    /\ streamInfo.uri # <<>>
    /\ (streamInfo.resolution # <<>> => IsResolution(streamInfo.resolution))
    /\ ~IsBlank(streamInfo.uri)

StreamInfoAccepted(streamInfo) ==
    /\ streamInfo.bandwidth # 0
    /\ streamInfo.uri # <<>>
    /\ streamInfo.bandwidth > 0
    /\ (streamInfo.resolution # <<>> => IsResolution(streamInfo.resolution))
    /\ ~IsBlank(streamInfo.uri)

----------------------------------------------------------------------------
(* AudioUriUtils (lib/modules/audio.ts).                                   *)

AUDIO_SLASH == <<"a","u","d","i","o","/">>
DOT_M3U8 == <<".","m","3","u","8">>

\* s.replace(/p/g, r) for a literal pattern p: leftmost, non-overlapping.
RECURSIVE ReplaceAll(_, _, _)
ReplaceAll(s, p, r) ==
    LET i == IndexOf(s, p)
    IN  IF i = 0 THEN s
        ELSE SubSeq(s, 1, i - 1) \o r
             \o ReplaceAll(SubSeq(s, i + Len(p), Len(s)), p, r)

\* while (normalized.includes('audio/audio/')) normalized = normalized.replace(...)
RECURSIVE DedupAudioPrefix(_)
DedupAudioPrefix(s) ==
    IF Includes(s, AUDIO_SLASH \o AUDIO_SLASH)
    THEN DedupAudioPrefix(ReplaceAll(s, AUDIO_SLASH \o AUDIO_SLASH, AUDIO_SLASH))
    ELSE s

\* s.replace(/\/+/g, '/')
RECURSIVE CollapseSlashes(_)
CollapseSlashes(s) ==
    IF s = <<>> THEN <<>>
    ELSE IF Len(s) >= 2 /\ s[1] = "/" /\ s[2] = "/" THEN CollapseSlashes(Tail(s))
    ELSE <<Head(s)>> \o CollapseSlashes(Tail(s))

normalizeAudioUri(uri) ==
    IF uri = <<>> THEN <<>>
    ELSE LET d == DedupAudioPrefix(uri)
             n == IF StartsWith(d, AUDIO_SLASH) THEN d ELSE AUDIO_SLASH \o d
         IN  CollapseSlashes(n)

generateAudioUri(trackId) ==
    IF trackId = <<>> THEN <<>>
    ELSE LET cleanId == IF StartsWith(trackId, AUDIO_SLASH)
                        THEN SubSeq(trackId, Len(AUDIO_SLASH) + 1, Len(trackId))
                        ELSE trackId
         IN  AUDIO_SLASH \o cleanId \o DOT_M3U8

----------------------------------------------------------------------------
(* Attaching media declarations to the stored master playlist.             *)

\* lines.findIndex(line => line.startsWith('#EXT-X-VERSION')); 0: not found.
versionIndex(lines) ==
    LET hits == { i \in 1..Len(lines) : StartsWith(lines[i], EXT_X_VERSION) }
    IN  IF hits = {} THEN 0 ELSE CHOOSE i \in hits : \A j \in hits : i <= j

MediaDeclLine(type, groupId, label, language, isDefault, uri) ==
    EXT_X_MEDIA \o <<":","T","Y","P","E","=">> \o type
      \o <<",","G","R","O","U","P","-","I","D","=">> \o Q \o groupId \o Q
      \o <<",","N","A","M","E","=">> \o Q \o label \o Q
      \o <<",","L","A","N","G","U","A","G","E","=">> \o Q \o language \o Q \o COMMA
      \o (IF isDefault THEN <<"D","E","F","A","U","L","T","=","Y","E","S",",">> ELSE <<>>)
      \o <<"U","R","I","=">> \o Q \o uri \o Q

audioLine(track) ==
    LET normalizedUri == IF track.uri # <<>> THEN track.uri ELSE generateAudioUri(track.id)
        validatedUri == normalizeAudioUri(normalizedUri)
    IN  MediaDeclLine(T_AUDIO, <<"a","u","d","i","o">>, track.label, track.language,
                      track.isDefault, validatedUri)

\* generateSubtitlePlaylist returns `subtitles/${language}.m3u8`
subtitlePlaylistUri(language) ==
    <<"s","u","b","t","i","t","l","e","s","/">> \o language \o DOT_M3U8

subtitleLine(subtitle) ==
    MediaDeclLine(T_SUBTITLES, <<"s","u","b","s">>, subtitle.label, subtitle.language,
                  subtitle.isDefault, subtitlePlaylistUri(subtitle.language))

RECURSIVE MapAudioLines(_)
MapAudioLines(tracks) ==
    IF tracks = <<>> THEN <<>>
    ELSE <<audioLine(Head(tracks))>> \o MapAudioLines(Tail(tracks))

RECURSIVE MapSubtitleLines(_)
MapSubtitleLines(subtitles) ==
    IF subtitles = <<>> THEN <<>>
    ELSE <<subtitleLine(Head(subtitles))>> \o MapSubtitleLines(Tail(subtitles))

\* if (!lines[i].includes('AUDIO')) lines[i] += ',AUDIO="audio"'
withAudioRef(line) ==
    IF StartsWith(line, EXT_X_STREAM_INF) /\ ~Includes(line, T_AUDIO)
    THEN line \o <<",">> \o T_AUDIO \o <<"=">> \o Q \o <<"a","u","d","i","o">> \o Q
    ELSE line

\* if (!lines[i].includes('SUBTITLES')) lines[i] += ',SUBTITLES="subs"'
withSubtitlesRef(line) ==
    IF StartsWith(line, EXT_X_STREAM_INF) /\ ~Includes(line, T_SUBTITLES)
    THEN line \o <<",">> \o T_SUBTITLES \o <<"=">> \o Q \o <<"s","u","b","s">> \o Q
    ELSE line

\* The new lines pushed at the end of the text.
Splice_append(lines, at, newLines) == lines \o newLines

\* lines.splice(versionIndex + 1, 0, ...newLines)
Splice(lines, at, newLines) ==
    SubSeq(lines, 1, at) \o newLines \o SubSeq(lines, at + 1, Len(lines))

\* generateHlsWithAudio with the group references added and the file
\* written whether or not a version line was found.
generateHlsWithAudio_refsAlways(lines, audioTracks) ==
    LET v == versionIndex(lines)
        spliced == IF v = 0 THEN lines ELSE Splice(lines, v, MapAudioLines(audioTracks))
    IN  WriteFile([i \in 1..Len(spliced) |-> withAudioRef(spliced[i])])

\* generateHlsWithAudio: the stored lines after the call.
generateHlsWithAudio(lines, audioTracks) ==
    LET v == versionIndex(lines)
        spliced == Splice(lines, v, MapAudioLines(audioTracks))
    IN  IF v = 0 THEN lines
        ELSE WriteFile([i \in 1..Len(spliced) |-> withAudioRef(spliced[i])])

\* generateHlsWithSubtitles: the stored lines after the call.
generateHlsWithSubtitles(lines, subtitles) ==
    LET v == versionIndex(lines)
        spliced == Splice(lines, v, MapSubtitleLines(subtitles))
    IN  IF v = 0 THEN lines
        ELSE WriteFile([i \in 1..Len(spliced) |-> withSubtitlesRef(spliced[i])])

----------------------------------------------------------------------------
(* M3U8Handler.optimizeMasterPlaylist (routes/streaming.ts).               *)

\* line.match(/KEY="([^"]+)"/): the leftmost KEY=" that is followed by one
\* or more characters other than '"' and then a '"'.
RECURSIVE MatchQuoted(_, _, _)
MatchQuoted(line, key, from) ==
    LET prefix == key \o <<"=">> \o Q
        i == IndexFrom(line, prefix, from)
        start == i + Len(prefix)
        close == IndexFrom(line, Q, start)
    IN  IF i = 0 THEN [found |-> FALSE, value |-> <<>>]
        ELSE IF close > start
        THEN [found |-> TRUE, value |-> SubSeq(line, start, close - 1)]
        ELSE MatchQuoted(line, key, i + 1)

RECURSIVE OptimizeFrom(_, _, _, _, _)
OptimizeFrom(lines, i, optimizedLines, seenAudioTracks, seenStreamInf) ==
    IF i > Len(lines) THEN optimizedLines
    ELSE
    LET line == lines[i] IN
    IF StartsWith(line, EXT_X_MEDIA \o <<":","T","Y","P","E","=">> \o T_AUDIO)
    THEN LET languageMatch == MatchQuoted(line, <<"L","A","N","G","U","A","G","E">>, 1)
             uriMatch == MatchQuoted(line, <<"U","R","I">>, 1)
             audioKey == languageMatch.value \o <<"_">> \o uriMatch.value
         IN  IF languageMatch.found /\ uriMatch.found
             THEN IF audioKey \notin seenAudioTracks
                  THEN OptimizeFrom(lines, i + 1, Append(optimizedLines, line),
                                    seenAudioTracks \cup {audioKey}, seenStreamInf)
                  ELSE OptimizeFrom(lines, i + 1, optimizedLines,
                                    seenAudioTracks, seenStreamInf)
             ELSE OptimizeFrom(lines, i + 1, Append(optimizedLines, line),
                               seenAudioTracks, seenStreamInf)
    ELSE IF StartsWith(line, EXT_X_STREAM_INF)
    THEN LET nextLine == IF i + 1 <= Len(lines) THEN lines[i + 1] ELSE <<>>
             streamKey == line \o <<"_">> \o nextLine
             isUri == nextLine # <<>> /\ ~StartsWith(nextLine, <<"#">>)
             after == IF isUri THEN i + 2 ELSE i + 1
         IN  IF streamKey \notin seenStreamInf
             THEN OptimizeFrom(lines, after,
                               IF isUri THEN optimizedLines \o <<line, nextLine>>
                               ELSE Append(optimizedLines, line),
                               seenAudioTracks, seenStreamInf \cup {streamKey})
             ELSE OptimizeFrom(lines, after, optimizedLines,
                               seenAudioTracks, seenStreamInf)
    ELSE OptimizeFrom(lines, i + 1, Append(optimizedLines, line),
                      seenAudioTracks, seenStreamInf)

\* The lines of optimizeMasterPlaylist(lines.join('\n'), videoId).
optimizeMasterPlaylist(lines) == OptimizeFrom(lines, 1, <<>>, {}, {})

----------------------------------------------------------------------------
(* M3U8Builder calls.                                                      *)

MediaTrack(type, groupId, name, language, isDefault, uri) ==
    [type |-> type, groupId |-> groupId, name |-> name, language |-> language,
     isDefault |-> isDefault, autoSelect |-> "undefined", uri |-> uri,
     characteristics |-> <<>>, channels |-> <<>>]

StreamInfo(bandwidth, resolution, audio, subtitles, uri) ==
    [bandwidth |-> bandwidth, resolution |-> resolution, codecs |-> <<>>,
     frameRate |-> 0, audio |-> audio, video |-> <<>>, subtitles |-> subtitles,
     closedCaptions |-> <<>>, uri |-> uri]

g_audio == <<"a","u","d","i","o">>
g_subs == <<"s","u","b","s">>
l_en == <<"e","n">>
l_es == <<"e","s">>
u_audio_en == <<"a","u","d","i","o","/","e","n",".","m","3","u","8">>
u_subs_es == <<"s","u","b","t","i","t","l","e","s","/","e","s",".","m","3","u","8">>
u_360 == <<"3","6","0","p",".","m","3","u","8">>
u_720 == <<"7","2","0","p",".","m","3","u","8">>
u_480 == <<"4","8","0","p",".","m","3","u","8">>
\* A subtitles group whose id contains the word AUDIO.
g_audioSubs == <<"A","U","D","I","O","_","S","U","B","S">>

trackAudioEn == MediaTrack(T_AUDIO, g_audio, <<"E","n">>, l_en, "true", u_audio_en)
trackSubsEs == MediaTrack(T_SUBTITLES, g_subs, <<"E","s">>, l_es, "undefined", u_subs_es)
trackNoName == MediaTrack(T_AUDIO, g_audio, <<>>, l_en, "undefined", u_audio_en)

stream360 == StreamInfo(500000, s640x360, <<>>, <<>>, u_360)
stream720 == StreamInfo(2000000, s1280x720, g_audio, <<>>, u_720)
streamNoBandwidth == StreamInfo(0, s640x360, <<>>, <<>>, u_360)
trackAudioSubs == MediaTrack(T_SUBTITLES, g_audioSubs, <<"E","s">>, l_es, "undefined", u_subs_es)
stream480 == StreamInfo(1000000, s854x480, <<>>, g_audioSubs, u_480)

MediaTrackInputs == {trackAudioEn, trackSubsEs, trackNoName}
StreamInfoInputs == {stream360, stream720, streamNoBandwidth}

MaxTracks == 1

addMediaTrack(track) ==
    /\ Len(builder.mediaTracks) < MaxTracks
    /\ builder' = IF MediaTrackAccepted(track)
                  THEN [builder EXCEPT !.mediaTracks = Append(@, track), !.threw = FALSE]
                  ELSE [builder EXCEPT !.threw = TRUE]
    /\ built' = <<>>
    /\ UNCHANGED <<convVars, masterFile, attached, served, optVars,
                   demoFile, audioCache, responses, audioUri>>

addStreamInfo(streamInfo) ==
    /\ Len(builder.streamInfos) < MaxStreams
    /\ builder' = IF StreamInfoAccepted(streamInfo)
                  THEN [builder EXCEPT !.streamInfos = Append(@, streamInfo), !.threw = FALSE]
                  ELSE [builder EXCEPT !.threw = TRUE]
    /\ built' = <<>>
    /\ UNCHANGED <<convVars, masterFile, attached, served, optVars,
                   demoFile, audioCache, responses, audioUri>>

clear ==
    /\ builder' = NoBuilder
    /\ built' = <<>>
    /\ UNCHANGED <<convVars, masterFile, attached, served, optVars,
                   demoFile, audioCache, responses, audioUri>>

NextBuilder ==
    \/ \E track \in MediaTrackInputs : addMediaTrack(track)
    \/ \E streamInfo \in StreamInfoInputs : addStreamInfo(streamInfo)
    \/ clear

NextAssemble == Next \/ NextBuilder

\* The converter and a builder, side by side.
SpecAssemble == Init /\ [][NextAssemble]_vars

----------------------------------------------------------------------------
(* The stored master playlist under attach and optimize calls.             *)

Track(id, language, label, isDefault, uri) ==
    [id |-> id, language |-> language, label |-> label, isDefault |-> isDefault,
     uri |-> uri, path |-> <<>>]

audioEn == Track(l_en, l_en, <<"E","n">>, TRUE, <<>>)
audioEs == Track(l_es, l_es, <<"E","s">>, FALSE, <<>>)
subEs == Track(<<"s","u","b","_","e","s">>, l_es, <<"E","s">>, TRUE, <<>>)
subEn == Track(<<"s","u","b","_","e","n">>, l_en, <<"E","n">>, FALSE, <<>>)

\* A track whose label holds double quotes: En "5.1"
audioQuoted == Track(<<"q">>, l_en, <<"E","n"," ","\"","5",".","1","\"">>, FALSE, <<>>)

AudioTrackLists == { <<>>, <<audioEn>>, <<audioEn, audioEs>>, <<audioQuoted>> }
SubtitleTrackLists == { <<>>, <<subEs>>, <<subEs, subEn>> }

\* Master playlists as convertToHls and M3U8Builder.build write them.
StoredManifests ==
    { MasterPlaylistContent(<<ProcessedResolution(Rendition(n480p, s854x480, b1200k))>>),
      MasterPlaylistContent(<<ProcessedResolution(Rendition(n360p, s640x360, b800k)),
                              ProcessedResolution(Rendition(n720p, s1280x720, b1500k))>>),
      WriteFile(build([mediaTracks |-> <<>>, streamInfos |-> <<stream360>>])),
      WriteFile(build([mediaTracks |-> <<trackAudioEn>>,
                       streamInfos |-> <<stream720, stream360>>])),
      WriteFile(build([mediaTracks |-> <<trackAudioSubs>>,
                       streamInfos |-> <<stream480>>])) }

AttachAudio(audioTracks) ==
    /\ Len(attached) < MaxAttach
    /\ masterFile # <<>>
    /\ masterFile' = generateHlsWithAudio(masterFile, audioTracks)
    /\ attached' = Append(attached, [kind |-> "audio", tracks |-> audioTracks])
    /\ UNCHANGED <<convVars, builder, served, optVars, ioVars>>

AttachSubtitles(subtitles) ==
    /\ Len(attached) < MaxAttach
    /\ masterFile # <<>>
    /\ masterFile' = generateHlsWithSubtitles(masterFile, subtitles)
    /\ attached' = Append(attached, [kind |-> "subtitles", tracks |-> subtitles])
    /\ UNCHANGED <<convVars, builder, served, optVars, ioVars>>

\* M3U8Handler.optimizeMasterPlaylist on the stored text; the stored text
\* is only read.
OptimizeStored ==
    /\ masterFile # <<>>
    /\ served' = optimizeMasterPlaylist(masterFile)
    /\ UNCHANGED <<convVars, masterFile, builder, attached, optVars, ioVars>>

InitAttach ==
    /\ InitConv
    /\ InitIo
    /\ resolutions = <<>>
    /\ masterFile \in StoredManifests
    /\ builder = NoBuilder
    /\ attached = <<>>
    /\ served = <<>>
    /\ optIn = <<>>
    /\ optOnce = <<>>
    /\ optTwice = <<>>

NextAttach ==
    \/ \E audioTracks \in AudioTrackLists : AttachAudio(audioTracks)
    \/ \E subtitles \in SubtitleTrackLists : AttachSubtitles(subtitles)
    \/ OptimizeStored

SpecAttach == InitAttach /\ [][NextAttach]_vars

----------------------------------------------------------------------------
(* The optimizer as a function of arbitrary manifest text.                 *)

optAudio ==
    EXT_X_MEDIA \o <<":","T","Y","P","E","=">> \o T_AUDIO
      \o <<",","N","A","M","E","=","\"","a","\"",",","L","A","N","G","U","A","G","E","=","\"","e","\"",
           ",","U","R","I","=","\"","u","\"">>
optAudioOther ==
    EXT_X_MEDIA \o <<":","T","Y","P","E","=">> \o T_AUDIO
      \o <<",","N","A","M","E","=","\"","b","\"",",","L","A","N","G","U","A","G","E","=","\"","e","\"",
           ",","U","R","I","=","\"","u","\"">>
optStream == EXT_X_STREAM_INF \o <<":">> \o BANDWIDTH_ATTR \o <<"1">>
optUri == <<"v",".","m","3","u","8">>
optBlank == <<>>

OptAlphabet == {optAudio, optAudioOther, optStream, optUri, optBlank}

OptInputs == UNION { [1..n -> OptAlphabet] : n \in 1..MaxOptLines }

OptimizeOnce ==
    /\ optOnce = <<>>
    /\ optOnce' = optimizeMasterPlaylist(optIn)
    /\ UNCHANGED <<convVars, masterFile, builder, attached, served, optIn, optTwice, ioVars>>

OptimizeAgain ==
    /\ optOnce # <<>>
    /\ optTwice = <<>>
    /\ optTwice' = optimizeMasterPlaylist(optOnce)
    /\ UNCHANGED <<convVars, masterFile, builder, attached, served, optIn, optOnce, ioVars>>

InitOpt ==
    /\ InitConv
    /\ InitIo
    /\ resolutions = <<>>
    /\ masterFile = <<>>
    /\ builder = NoBuilder
    /\ attached = <<>>
    /\ served = <<>>
    /\ optIn \in OptInputs
    /\ optOnce = <<>>
    /\ optTwice = <<>>

NextOpt == OptimizeOnce \/ OptimizeAgain

SpecOpt == InitOpt /\ [][NextOpt]_vars
----------------------------------------------------------------------------
(* Reading a manifest back.                                                *)

IsStreamInf(line) == StartsWith(line, EXT_X_STREAM_INF)
IsMedia(line) == StartsWith(line, EXT_X_MEDIA)

\* The BANDWIDTH attribute of an EXT-X-STREAM-INF line.
BandwidthOf(line) ==
    LET i == IndexOf(line, BANDWIDTH_ATTR)
    IN  ParseInt(SubSeq(line, i + Len(BANDWIDTH_ATTR), Len(line))).n

RECURSIVE StreamInfLines(_)
StreamInfLines(lines) ==
    IF lines = <<>> THEN <<>>
    ELSE (IF IsStreamInf(Head(lines)) THEN <<Head(lines)>> ELSE <<>>)
         \o StreamInfLines(Tail(lines))

RECURSIVE MediaDeclLines(_)
MediaDeclLines(lines) ==
    IF lines = <<>> THEN <<>>
    ELSE (IF IsMedia(Head(lines)) THEN <<Head(lines)>> ELSE <<>>)
         \o MediaDeclLines(Tail(lines))

BandwidthsNonDecreasing(lines) ==
    LET s == StreamInfLines(lines)
    IN  \A i \in 1..(Len(s) - 1) : BandwidthOf(s[i]) <= BandwidthOf(s[i + 1])

----------------------------------------------------------------------------
(* Properties of the converter.                                            *)

BatchDecided ==
    \/ phase = "resolved"
    \/ phase = "rejected" /\ rejection.kind \in {"batch", "empty", "write"}

\* C1: every planned job has its promise before the call awaits, and the
\* batch outcome is decided only when every job has ended or errored; the
\* collected successes and failures together are all the jobs, and a batch
\* with a failure is a failed batch.
C1_SettleAll ==
    /\ phase = "awaiting" => Len(processingPromises) = Len(targetResolutions)
    /\ BatchDecided =>
         /\ Len(processingPromises) = Len(targetResolutions)
         /\ \A i \in 1..Len(processingPromises) :
                processingPromises[i] \in {"fulfilled", "rejected"}
         /\ Len(successfulResults) + errors = Len(targetResolutions)
         /\ errors = Cardinality({ i \in 1..Len(processingPromises) :
                                     processingPromises[i] = "rejected" })
         /\ (errors > 0 => phase = "rejected")

\* Three jobs, the second failed: two successes, one failure, failed batch.
C1_Witness ==
    /\ phase = "rejected"
    /\ processingPromises = <<"fulfilled", "rejected", "fulfilled">>
    /\ Len(successfulResults) = 2
    /\ errors = 1

\* C2: the master playlist is written only by a call all of whose jobs
\* succeeded; a call with a failed job rejects with the aggregate error
\* carrying the number of failed jobs and leaves the file as it was.
C2_NoPartialManifest ==
    [][ /\ masterFile' # masterFile =>
             /\ phase' = "resolved"
             /\ \A i \in 1..Len(processingPromises) : processingPromises[i] = "fulfilled"
        /\ ( /\ phase = "awaiting"
             /\ phase' # "awaiting"
             /\ \E i \in 1..Len(processingPromises) : processingPromises[i] = "rejected" )
           => /\ phase' = "rejected"
              /\ rejection' = [kind |-> "batch",
                               count |-> Cardinality({ i \in 1..Len(processingPromises) :
                                                         processingPromises[i] = "rejected" })]
              /\ masterFile' = masterFile
      ]_vars

\* A failed batch after an earlier call published a manifest.
C2_Witness ==
    /\ phase = "rejected"
    /\ rejection.kind = "batch"
    /\ rejection.count >= 1
    /\ Len(successfulResults) >= 1
    /\ masterFile # <<>>

\* C3: the STREAM-INF lines of the written master playlist, and of the
\* text M3U8Builder.build returns, are in non-decreasing BANDWIDTH order.
C3_BandwidthOrder ==
    /\ BandwidthsNonDecreasing(masterFile)
    /\ BandwidthsNonDecreasing(build(builder))

\* A manifest written from results whose job order is not their bandwidth
\* order, next to a builder whose streams were added in descending order.
C3_Witness ==
    /\ phase = "resolved"
    /\ Len(successfulResults) >= 2
    /\ \E i \in 1..(Len(successfulResults) - 1) :
           successfulResults[i].bandwidth > successfulResults[i + 1].bandwidth
    /\ Len(StreamInfLines(masterFile)) = Len(successfulResults)
    /\ Len(builder.streamInfos) = 2
    /\ builder.streamInfos[1].bandwidth > builder.streamInfos[2].bandwidth

ConfiguredHasSourceSize ==
    \E i \in 1..Len(resolutions) : resolutions[i].size = SizeOf(metadata)

\* C4: when a configured rendition has the source's frame size, the plan
\* is the configured list (no synthetic rendition) and that rendition is
\* flagged isOriginal.
C4_PlannerDedup ==
    (phase = "awaiting" /\ ConfiguredHasSourceSize) =>
        /\ Len(targetResolutions) = Len(resolutions)
        /\ \A i \in 1..Len(targetResolutions) :
               targetResolutions[i].size = SizeOf(metadata)
                   => targetResolutions[i].isOriginal

DistinctSizes(res) ==
    \A i, j \in 1..Len(res) : res[i].size = res[j].size => i = j

\* C5: the plan holds exactly one rendition of the source's frame size,
\* and it is flagged isOriginal, whatever the configured names are.
C5_DedupByFrameSize ==
    (phase = "awaiting" /\ DistinctSizes(resolutions)) =>
        /\ Cardinality({ i \in 1..Len(targetResolutions) :
                           targetResolutions[i].size = SizeOf(metadata) }) = 1
        /\ \A i \in 1..Len(targetResolutions) :
               targetResolutions[i].size = SizeOf(metadata)
                   => targetResolutions[i].isOriginal

----------------------------------------------------------------------------
(* Properties of the stored and the optimized manifest.                    *)

GroupIdOf(line) == MatchQuoted(line, <<"G","R","O","U","P","-","I","D">>, 1)
UriOf(line) == MatchQuoted(line, <<"U","R","I">>, 1)
AudioRefOf(line) == MatchQuoted(line, T_AUDIO, 1)
SubtitlesRefOf(line) == MatchQuoted(line, T_SUBTITLES, 1)

\* Number of (non-overlapping) occurrences of p in s.
RECURSIVE CountOf(_, _)
CountOf(s, p) ==
    LET i == IndexOf(s, p)
    IN  IF i = 0 THEN 0 ELSE 1 + CountOf(SubSeq(s, i + Len(p), Len(s)), p)

\* C6: the stored manifest has at most one EXT-X-MEDIA declaration per
\* (GROUP-ID, URI) pair.
C6_OneDeclPerGroupUri ==
    LET m == MediaDeclLines(masterFile)
    IN  \A i, j \in 1..Len(m) :
            (GroupIdOf(m[i]) = GroupIdOf(m[j]) /\ UriOf(m[i]) = UriOf(m[j])) => i = j

GroupDeclared(lines, groupId) ==
    \E i \in 1..Len(lines) :
        /\ IsMedia(lines[i])
        /\ GroupIdOf(lines[i]) = [found |-> TRUE, value |-> groupId]

RefsResolved(lines) ==
    \A i \in 1..Len(lines) :
        IsStreamInf(lines[i]) =>
            /\ AudioRefOf(lines[i]).found
                   => GroupDeclared(lines, AudioRefOf(lines[i]).value)
            /\ SubtitlesRefOf(lines[i]).found
                   => GroupDeclared(lines, SubtitlesRefOf(lines[i]).value)

\* C7: every AUDIO= or SUBTITLES= reference of a STREAM-INF line, in the
\* stored manifest and in the optimizer's output, names a GROUP-ID that an
\* EXT-X-MEDIA line of the same manifest declares.
C7_ReferentialIntegrity ==
    /\ RefsResolved(masterFile)
    /\ RefsResolved(served)

\* C8: optimizing the optimizer's output changes nothing, for every
\* manifest text, well-formed or not.
C8_Idempotent ==
    optTwice # <<>> => optTwice = optOnce

\* C9: for a manifest as the assembler wrote it and every track set T,
\* the optimizer's output after attaching T twice is its output after
\* attaching T once.
C9_AttachIdempotentUnderOptimize ==
    attached = <<>> =>
        /\ \A T \in AudioTrackLists :
               optimizeMasterPlaylist(
                   generateHlsWithAudio(generateHlsWithAudio(masterFile, T), T))
               = optimizeMasterPlaylist(generateHlsWithAudio(masterFile, T))
        /\ \A T \in SubtitleTrackLists :
               optimizeMasterPlaylist(
                   generateHlsWithSubtitles(generateHlsWithSubtitles(masterFile, T), T))
               = optimizeMasterPlaylist(generateHlsWithSubtitles(masterFile, T))

Happened(log, kind) == \E i \in 1..Len(log) : log[i].kind = kind

RefAttr(key) == key \o <<"=">>

\* C10: after an attach call every STREAM-INF line carries exactly one
\* reference of the attached role (and exactly one of each role attached
\* so far); a line that carried one is left as it was, a line that lacked
\* it gets the role's group id ("audio" / "subs"), and the other role's
\* reference is not touched.
C10_OneGroupRefPerVariant ==
    [][ attached' # attached =>
          LET old == StreamInfLines(masterFile)
              new == StreamInfLines(masterFile')
              kind == attached'[Len(attached')].kind
              key == IF kind = "audio" THEN T_AUDIO ELSE T_SUBTITLES
              other == IF kind = "audio" THEN T_SUBTITLES ELSE T_AUDIO
              groupId == IF kind = "audio" THEN <<"a","u","d","i","o">>
                         ELSE <<"s","u","b","s">>
          IN  /\ Len(new) = Len(old)
              /\ \A k \in 1..Len(new) :
                   /\ CountOf(new[k], RefAttr(key)) = 1
                   /\ Happened(attached', "audio")
                          => CountOf(new[k], RefAttr(T_AUDIO)) = 1
                   /\ Happened(attached', "subtitles")
                          => CountOf(new[k], RefAttr(T_SUBTITLES)) = 1
                   /\ MatchQuoted(old[k], key, 1).found => new[k] = old[k]
                   /\ ~MatchQuoted(old[k], key, 1).found
                          => MatchQuoted(new[k], key, 1) = [found |-> TRUE, value |-> groupId]
                   /\ MatchQuoted(new[k], other, 1) = MatchQuoted(old[k], other, 1)
      ]_vars

----------------------------------------------------------------------------
(* M3U8Handler.processM3U8Content: the serve-time rewriter.                *)

EXAMPLE_ORIGIN == <<"h","t","t","p",":","/","/","l","o","c","a","l","h","o","s","t",":","3","0","0","0","/","e","x","a","m","p","l","e","-","o","u","t","p","u","t","/">>

\* line.replace(/http:\/\/localhost:3000\/example-output\/([^\s"]+)/g,
\*              `${baseUrl}/$1`): every occurrence of the origin that is
\* followed by at least one character other than white space and '"' is
\* replaced by baseUrl + '/'; the run after it ($1) is kept and is not
\* searched again.
RECURSIVE RewriteOrigin(_, _)
RewriteOrigin(s, baseUrl) ==
    LET i == IndexOf(s, EXAMPLE_ORIGIN)
        j == i + Len(EXAMPLE_ORIGIN)
        stops == { k \in j..Len(s) : s[k] \in {" ", "\t", "\n", "\r", "\""} }
        k == IF stops = {} THEN Len(s) + 1
             ELSE CHOOSE x \in stops : \A y \in stops : x <= y
    IN  IF i = 0 THEN s
        ELSE IF k = j
        THEN SubSeq(s, 1, i) \o RewriteOrigin(SubSeq(s, i + 1, Len(s)), baseUrl)
        ELSE SubSeq(s, 1, i - 1) \o baseUrl \o <<"/">> \o SubSeq(s, j, k - 1)
             \o RewriteOrigin(SubSeq(s, k, Len(s)), baseUrl)

\* path.basename(uri, '.vtt') (posix) of a uri that ends with '.vtt'.
basename(uri) ==
    LET slashes == { i \in 1..Len(uri) : uri[i] = "/" }
        start == IF slashes = {} THEN 1
                 ELSE 1 + CHOOSE x \in slashes : \A y \in slashes : y <= x
        segment == SubSeq(uri, start, Len(uri))
    IN  IF uri = <<".","v","t","t">> THEN <<>>
        ELSE IF segment = <<".","v","t","t">> THEN segment
        ELSE SubSeq(segment, 1, Len(segment) - 4)

\* The replacer callback of lines 93-111, for the captured uri.
RewriteUri(uri, baseUrl) ==
    LET filename == basename(uri)
        language == IF StartsWith(filename, <<"s","u","b","_">>)
                    THEN SubSeq(filename, 5, Len(filename)) ELSE filename
        target ==
            IF StartsWith(uri, <<"h","t","t","p">>) \/ StartsWith(uri, <<"/">>) THEN uri
            ELSE IF EndsWith(uri, <<".","v","t","t">>)
            THEN IF language # <<>>
                 THEN baseUrl \o <<"/","s","u","b","t","i","t","l","e","s","/">> \o language \o <<".","m","3","u","8">>
                 ELSE baseUrl \o <<"/","s","u","b","t","i","t","l","e","s","/">> \o uri
            ELSE baseUrl \o <<"/">> \o uri
    IN  <<"U","R","I","=","\"">> \o target \o Q

\* line.replace(/URI="([^"]+)"/g, callback)
RECURSIVE RewriteUriAttrs(_, _)
RewriteUriAttrs(s, baseUrl) ==
    LET i == IndexOf(s, <<"U","R","I","=","\"">>)
        j == i + 5
        k == IndexFrom(s, Q, j)
    IN  IF i = 0 \/ k = 0 THEN s
        ELSE IF k = j
        THEN SubSeq(s, 1, i) \o RewriteUriAttrs(SubSeq(s, i + 1, Len(s)), baseUrl)
        ELSE SubSeq(s, 1, i - 1) \o RewriteUri(SubSeq(s, j, k - 1), baseUrl)
             \o RewriteUriAttrs(SubSeq(s, k + 1, Len(s)), baseUrl)

\* line.match(/^[^#].*\.m3u8$/): '.' matches no line terminator.
IsPlaylistLine(line) ==
    /\ Len(line) >= 6
    /\ line[1] # "#"
    /\ EndsWith(line, <<".","m","3","u","8">>)
    /\ \A i \in 2..(Len(line) - 5) : line[i] \notin {"\n", "\r"}

\* The body of the for loop of processM3U8Content (lines 83-129).
processLine(line, baseUrl, id) ==
    LET absolute == IF Includes(line, EXAMPLE_ORIGIN)
                    THEN RewriteOrigin(line, baseUrl) ELSE line
        media == IF /\ Includes(line, <<"U","R","I","=","\"">>)
                    /\ ~Includes(line, <<"h","t","t","p">>)
                    /\ ~Includes(line, baseUrl)
                 THEN RewriteUriAttrs(line, baseUrl) ELSE absolute
        demoRest == SubSeq(line, Len(<<"r","e","a","l","-","w","o","r","l","d","-","d","e","m","o","/">>) + 1, Len(line))
        slashCount == Cardinality({ i \in 1..Len(line) : line[i] = "/" })
    IN  IF IsPlaylistLine(line) /\ ~StartsWith(line, <<"h","t","t","p">>) /\ ~StartsWith(line, <<"/">>)
        THEN IF id = <<"d","e","m","o">> /\ StartsWith(line, <<"r","e","a","l","-","w","o","r","l","d","-","d","e","m","o","/">>)
             THEN IF slashCount = 2 THEN baseUrl \o <<"/">> \o demoRest ELSE media
             ELSE baseUrl \o <<"/">> \o line
        ELSE media

\* processM3U8Content(lines.join('\n'), baseUrl, videoId).split('\n')
processM3U8Content(lines, baseUrl, id) ==
    [i \in 1..Len(lines) |-> processLine(lines[i], baseUrl, id)]

----------------------------------------------------------------------------
(* GET /:videoId/master.m3u8.                                              *)

MaxServes == 3

VALID_M3U8_HEADERS ==
    { <<"#","E","X","T","M","3","U">>, <<"#","E","X","T","-","X","-","V","E","R","S","I","O","N">>, <<"#","E","X","T","-","X","-","T","A","R","G","E","T","D","U","R","A","T","I","O","N">>,
      <<"#","E","X","T","-","X","-","M","E","D","I","A","-","S","E","Q","U","E","N","C","E">>, <<"#","E","X","T","-","X","-","P","L","A","Y","L","I","S","T","-","T","Y","P","E">>, <<"#","E","X","T","-","X","-","S","T","R","E","A","M","-","I","N","F">>,
      <<"#","E","X","T","-","X","-","M","E","D","I","A">>, <<"#","E","X","T","-","X","-","E","N","D","L","I","S","T">> }

\* M3U8Handler.validateM3U8Content(content).isValid
M3U8Handler_validateM3U8Content(content) ==
    LET NonBlank(l) == ~IsBlank(l)
        lines == SelectSeq(content, NonBlank)
        colon(l) == IndexOf(l, <<":">>)
        header(l) == IF colon(l) = 0 THEN l ELSE SubSeq(l, 1, colon(l) - 1)
        startsOk == lines # <<>> /\ StartsWith(lines[1], EXTM3U)
        hasValidHeaders ==
            \E i \in 1..Len(lines) :
                /\ StartsWith(lines[i], <<"#">>)
                /\ \E validHeader \in VALID_M3U8_HEADERS :
                       StartsWith(header(lines[i]), validHeader)
    IN  startsOk /\ hasValidHeaders

\* A master.m3u8 that exists (fs.existsSync) and cannot be read
\* (readFileSync throws, e.g. EISDIR).
Unreadable == << <<"EISDIR">> >>

demo == <<"d","e","m","o">>

\* The stored file M3U8Handler.getFilePath(videoId, 'master.m3u8') names.
getFilePath(id) ==
    IF id = demo THEN demoFile
    ELSE IF id = videoId THEN masterFile
    ELSE <<>>

\* const baseUrl = `/stream/${videoId}`
requestBaseUrl(id) == <<"/","s","t","r","e","a","m","/">> \o id

\* The response of the handler for the stored file `file`; seen is the set
\* the optimizer starts with (new Set() on every call).
Respond(id, file, seen) ==
    [videoId |-> id,
     stored |-> file,
     status |-> IF file = <<>> THEN "notFound"
                ELSE IF file = Unreadable THEN "internal"
                ELSE IF ~M3U8Handler_validateM3U8Content(file) THEN "malformed"
                ELSE "ok",
     body |-> IF \/ file \in {<<>>, Unreadable}
                 \/ ~M3U8Handler_validateM3U8Content(file)
              THEN <<>>
              ELSE OptimizeFrom(processM3U8Content(file, requestBaseUrl(id), id),
                                1, <<>>, seen, {})]

\* The audio keys (language_uri) of the audio declarations of a text.
AudioKeysOf(lines) ==
    { MatchQuoted(lines[i], <<"L","A","N","G","U","A","G","E">>, 1).value \o <<"_">>
        \o MatchQuoted(lines[i], <<"U","R","I">>, 1).value :
      i \in { k \in 1..Len(lines) :
                StartsWith(lines[k], EXT_X_MEDIA \o <<":","T","Y","P","E","=","A","U","D","I","O">>) } }

\* The handler with the optimizer's seen set kept in the static audioCache
\* instead of a new Set per call.
ServeMaster_cached(id) ==
    /\ Len(responses) < MaxServes
    /\ responses' = Append(responses, Respond(id, getFilePath(id), audioCache))
    /\ audioCache' = audioCache \cup AudioKeysOf(Respond(id, getFilePath(id), {}).body)
    /\ UNCHANGED <<convVars, masterFile, builder, attached, served, optVars,
                   demoFile, audioUri, built>>

\* The handler writing the rewritten text back to the file it read.
ServeMaster_writeBack(id) ==
    /\ Len(responses) < MaxServes
    /\ responses' = Append(responses, Respond(id, getFilePath(id), {}))
    /\ masterFile' = IF id = videoId /\ Respond(id, masterFile, {}).status = "ok"
                     THEN Respond(id, masterFile, {}).body ELSE masterFile
    /\ UNCHANGED <<convVars, builder, attached, served, optVars,
                   demoFile, audioCache, audioUri, built>>

\* streaming.get('/:videoId/master.m3u8'): the handler has no await, so a
\* request runs to its response in one step; it reads the file and the
\* static cache is neither read nor written.
ServeMaster(id) ==
    /\ Len(responses) < MaxServes
    /\ responses' = Append(responses, Respond(id, getFilePath(id), {}))
    /\ UNCHANGED <<convVars, masterFile, builder, attached, served, optVars,
                   demoFile, audioCache, audioUri, built>>

VideoIds == {videoId, demo, <<"v","2">>}

\* What master.m3u8 of video v1 may hold when requests arrive.
ServedManifests ==
    { <<>>,
      Unreadable,
      \* as convertToHls wrote it
      MasterPlaylistContent(<<ProcessedResolution(Rendition(n480p, s854x480, b1200k))>>),
      \* after audio was attached twice and subtitles once
      generateHlsWithSubtitles(
          generateHlsWithAudio(
              generateHlsWithAudio(
                  MasterPlaylistContent(
                      <<ProcessedResolution(Rendition(n480p, s854x480, b1200k))>>),
                  <<audioEn>>),
              <<audioEn>>),
          <<subEs>>),
      \* caption files and relative playlists
      << EXTM3U, <<"#","E","X","T","-","X","-","V","E","R","S","I","O","N",":","3">>,
         <<"#","E","X","T","-","X","-","M","E","D","I","A",":","T","Y","P","E","=","S","U","B","T","I","T","L","E","S",",","G","R","O","U","P","-","I","D","=","\"","s","u","b","s","\"",",","N","A","M","E","=","\"","E","s","\"",",","L","A","N","G","U","A","G","E","=","\"","e","s","\"",",","U","R","I","=","\"","e","s",".","v","t","t","\"">>,
         <<"#","E","X","T","-","X","-","M","E","D","I","A",":","T","Y","P","E","=","S","U","B","T","I","T","L","E","S",",","G","R","O","U","P","-","I","D","=","\"","s","u","b","s","\"",",","N","A","M","E","=","\"","E","n","\"",",","L","A","N","G","U","A","G","E","=","\"","e","n","\"",",","U","R","I","=","\"","s","u","b","s","/","s","u","b","_","e","n",".","v","t","t","\"">>,
         <<"#","E","X","T","-","X","-","M","E","D","I","A",":","T","Y","P","E","=","S","U","B","T","I","T","L","E","S",",","G","R","O","U","P","-","I","D","=","\"","s","u","b","s","\"",",","N","A","M","E","=","\"","X","x","\"",",","L","A","N","G","U","A","G","E","=","\"","x","x","\"",",","U","R","I","=","\"","s","u","b","_",".","v","t","t","\"">>,
         <<"#","E","X","T","-","X","-","S","T","R","E","A","M","-","I","N","F",":","B","A","N","D","W","I","D","T","H","=","5","0","0","0","0","0",",","S","U","B","T","I","T","L","E","S","=","\"","s","u","b","s","\"">>,
         <<"3","6","0","p","/","p","l","a","y","l","i","s","t",".","m","3","u","8">> >>,
      \* absolute URIs of the example output
      << <<>>, EXTM3U,
         <<"#","E","X","T","-","X","-","M","E","D","I","A",":","T","Y","P","E","=","A","U","D","I","O",",","G","R","O","U","P","-","I","D","=","\"","a","u","d","i","o","\"",",","N","A","M","E","=","\"","E","n","\"",",","L","A","N","G","U","A","G","E","=","\"","e","n","\"",",","U","R","I","=","\"","h","t","t","p",":","/","/","l","o","c","a","l","h","o","s","t",":","3","0","0","0","/","e","x","a","m","p","l","e","-","o","u","t","p","u","t","/","v","1","/","a","u","d","i","o","/","e","n",".","m","3","u","8","\"">>,
         <<"#","E","X","T","-","X","-","S","T","R","E","A","M","-","I","N","F",":","B","A","N","D","W","I","D","T","H","=","5","0","0","0","0","0",",","A","U","D","I","O","=","\"","a","u","d","i","o","\"">>,
         <<"h","t","t","p",":","/","/","l","o","c","a","l","h","o","s","t",":","3","0","0","0","/","e","x","a","m","p","l","e","-","o","u","t","p","u","t","/","v","1","/","3","6","0","p","/","p","l","a","y","l","i","s","t",".","m","3","u","8">> >>,
      \* texts that do not open with the header line
      << <<"#","E","X","T","M","3","U","8">>, <<"#","E","X","T","-","X","-","S","T","R","E","A","M","-","I","N","F",":","B","A","N","D","W","I","D","T","H","=","5","0","0","0","0","0">>, <<"3","6","0","p","/","p","l","a","y","l","i","s","t",".","m","3","u","8">> >>,
      << <<"#","E","X","T","-","X","-","V","E","R","S","I","O","N",":","3">>, EXTM3U, <<"3","6","0","p","/","p","l","a","y","l","i","s","t",".","m","3","u","8">> >>,
      << <<" ","#","E","X","T","M","3","U">>, <<"3","6","0","p","/","p","l","a","y","l","i","s","t",".","m","3","u","8">> >>,
      << <<>> >> }

DemoManifests ==
    { <<>>,
      << EXTM3U, <<"#","E","X","T","-","X","-","V","E","R","S","I","O","N",":","3">>,
         <<"#","E","X","T","-","X","-","S","T","R","E","A","M","-","I","N","F",":","B","A","N","D","W","I","D","T","H","=","5","0","0","0","0","0">>,
         <<"r","e","a","l","-","w","o","r","l","d","-","d","e","m","o","/","3","6","0","p","/","p","l","a","y","l","i","s","t",".","m","3","u","8">> >> }

InitServe ==
    /\ InitConv
    /\ resolutions = <<>>
    /\ masterFile \in ServedManifests
    /\ demoFile \in DemoManifests
    /\ builder = NoBuilder
    /\ attached = <<>>
    /\ served = <<>>
    /\ optIn = <<>>
    /\ optOnce = <<>>
    /\ optTwice = <<>>
    /\ audioCache = {}
    /\ responses = <<>>
    /\ audioUri = <<>>
    /\ built = <<>>

\* Requests for any video, between attach calls on the stored manifest.
NextServe ==
    \/ \E id \in VideoIds : ServeMaster(id)
    \/ AttachAudio(<<audioEn>>)
    \/ AttachSubtitles(<<subEs>>)

SpecServe == InitServe /\ [][NextServe]_vars

----------------------------------------------------------------------------
(* Properties of the serve path.                                           *)

\* C11: a response is the rewriter followed by the optimizer applied to the
\* stored text, the videoId and its base URL; two requests for the same
\* videoId that read the same stored text got identical responses, whatever
\* was requested in between, and nothing is carried from one request to
\* the next (the static cache stays empty).  Responses are only ever
\* appended, so each one is compared when it is the latest.
C11_ServeDeterminism ==
    /\ audioCache = {}
    /\ responses # <<>> =>
           LET last == responses[Len(responses)]
           IN  /\ last.status = "ok" =>
                      last.body =
                          optimizeMasterPlaylist(
                              processM3U8Content(last.stored,
                                                 requestBaseUrl(last.videoId),
                                                 last.videoId))
               /\ \A i \in 1..Len(responses) :
                      (/\ responses[i].videoId = last.videoId
                       /\ responses[i].stored = last.stored)
                          => responses[i] = last

\* The same manifest with an audio declaration served twice, with a request
\* for another video in between.
C11_Witness ==
    /\ Len(responses) = 3
    /\ responses[1].videoId = videoId
    /\ responses[2].videoId # videoId
    /\ responses[3].videoId = videoId
    /\ responses[1].stored = responses[3].stored
    /\ responses[1].status = "ok"
    /\ AudioKeysOf(responses[1].body) # {}

\* C12: a serve request, whatever its outcome, leaves the stored manifest
\* of every video as it was.
C12_ServeReadOnly ==
    [][ responses' # responses =>
          /\ masterFile' = masterFile
          /\ demoFile' = demoFile
          /\ \A id \in VideoIds : getFilePath(id)' = getFilePath(id)
      ]_vars

\* A manifest was served rewritten, another video was not found, and the
\* stored text is still the one that was read.
C12_Witness ==
    /\ \E i \in 1..Len(responses) :
           /\ responses[i].status = "ok"
           /\ responses[i].body # responses[i].stored
           /\ getFilePath(responses[i].videoId) = responses[i].stored
    /\ \E i \in 1..Len(responses) : responses[i].status = "notFound"
    /\ \E i \in 1..Len(responses) : responses[i].status \in {"malformed", "internal"}

\* The URI attribute of a line names a caption file by a bare relative
\* path.
IsCaptionUri(line) ==
    /\ UriOf(line).found
    /\ EndsWith(UriOf(line).value, <<".","v","t","t">>)
    /\ ~StartsWith(UriOf(line).value, <<"h","t","t","p">>)
    /\ ~StartsWith(UriOf(line).value, <<"/">>)

\* The language a caption file name stands for: its base name without
\* '.vtt' and without a leading 'sub_'.
LanguageOf(uri) ==
    LET slashes == { i \in 1..Len(uri) : uri[i] = "/" }
        start == IF slashes = {} THEN 1
                 ELSE 1 + CHOOSE x \in slashes : \A y \in slashes : y <= x
        stem == SubSeq(uri, start, Len(uri) - 4)
    IN  IF StartsWith(stem, <<"s","u","b","_">>) THEN SubSeq(stem, 5, Len(stem)) ELSE stem

\* C13: in a served manifest every caption-file URI of the stored text has
\* become {requestBaseUrl}/subtitles/{language}.m3u8, and no URI attribute
\* of the served text ends with '.vtt'.
C13_VttRewritten ==
    \A r \in 1..Len(responses) :
        responses[r].status = "ok" =>
            LET stored == responses[r].stored
                body == responses[r].body
                base == requestBaseUrl(responses[r].videoId)
            IN  /\ \A k \in 1..Len(stored) :
                       IsCaptionUri(stored[k]) =>
                           \E b \in 1..Len(body) :
                               UriOf(body[b]).value =
                                   base \o <<"/","s","u","b","t","i","t","l","e","s","/">>
                                        \o LanguageOf(UriOf(stored[k]).value) \o <<".","m","3","u","8">>
                /\ \A b \in 1..Len(body) :
                       UriOf(body[b]).found => ~EndsWith(UriOf(body[b]).value, <<".","v","t","t">>)

\* The per-video prefixes put in front of the paths at build time.
BuildOrigins(id) ==
    { ReplaceFirst(ReplaceFirst(proxyBaseUrlTemplate, VIDEOID_TOKEN, id), BASEPATH_TOKEN, <<>>),
      EXAMPLE_ORIGIN \o id \o <<"/">> }

\* C14: in a served manifest every URI line of the stored text that starts
\* with the build-time origin of the video has become
\* {requestBaseUrl}/{suffix}.
C14_OriginRewritten ==
    \A r \in 1..Len(responses) :
        responses[r].status = "ok" =>
            LET stored == responses[r].stored
                body == responses[r].body
                base == requestBaseUrl(responses[r].videoId)
            IN  \A k \in 1..Len(stored) :
                    \A origin \in BuildOrigins(responses[r].videoId) :
                        StartsWith(stored[k], origin) =>
                            \E b \in 1..Len(body) :
                                body[b] = base \o <<"/">>
                                    \o SubSeq(stored[k], Len(origin) + 1, Len(stored[k]))

\* The first line of a text that is not blank (<<>> when there is none).
FirstNonBlank(lines) ==
    LET NonBlank(l) == ~IsBlank(l)
        rest == SelectSeq(lines, NonBlank)
    IN  IF rest = <<>> THEN <<>> ELSE rest[1]

\* C15: a request is answered not-found when no manifest is stored,
\* malformed exactly when the first non-blank line of the stored text is
\* not #EXTM3U, and with the rewritten manifest otherwise; only the last
\* carries a manifest body.
C15_ServeOutcomes ==
    \A r \in 1..Len(responses) :
        responses[r].stored # Unreadable =>
            /\ responses[r].status = "notFound" <=> responses[r].stored = <<>>
            /\ responses[r].status = "malformed" <=>
                   (/\ responses[r].stored # <<>>
                    /\ FirstNonBlank(responses[r].stored) # EXTM3U)
            /\ responses[r].status = "ok" <=>
                   (/\ responses[r].stored # <<>>
                    /\ FirstNonBlank(responses[r].stored) = EXTM3U)
            /\ responses[r].status # "ok" => responses[r].body = <<>>
            /\ responses[r].status = "ok" =>
                   responses[r].body =
                       optimizeMasterPlaylist(
                           processM3U8Content(responses[r].stored,
                                              requestBaseUrl(responses[r].videoId),
                                              responses[r].videoId))

----------------------------------------------------------------------------
(* AudioUriUtils.normalizeAudioUri applied to path strings.                *)

MaxUriTokens == 3

\* Pieces a track URI is put together from.
UriTokens == { AUDIO_SLASH, <<"/">>, <<"e","n",".","m","3","u","8">>, <<"x">> }

RECURSIVE Concat(_)
Concat(ts) == IF ts = <<>> THEN <<>> ELSE Head(ts) \o Concat(Tail(ts))

\* Every non-empty URI of at most MaxUriTokens pieces.
UriInputs ==
    UNION { { Concat(ts) : ts \in [1..n -> UriTokens] } : n \in 1..MaxUriTokens }

InitNormalize ==
    /\ InitConv
    /\ resolutions = <<>>
    /\ masterFile = <<>>
    /\ demoFile = <<>>
    /\ builder = NoBuilder
    /\ attached = <<>>
    /\ served = <<>>
    /\ optIn = <<>>
    /\ optOnce = <<>>
    /\ optTwice = <<>>
    /\ audioCache = {}
    /\ responses = <<>>
    /\ audioUri \in { <<u>> : u \in UriInputs }
    /\ built = <<>>

\* normalizeAudioUri applied to the result of the previous application
\* (the URI itself the first time).
NormalizeAudioUri ==
    /\ Len(audioUri) \in 1..2
    /\ audioUri' = Append(audioUri, normalizeAudioUri(audioUri[Len(audioUri)]))
    /\ UNCHANGED <<convVars, masterFile, builder, attached, served, optVars,
                   demoFile, audioCache, responses, built>>

NextNormalize == NormalizeAudioUri

SpecNormalize == InitNormalize /\ [][NextNormalize]_vars

\* C16: the normalised form of a non-empty URI starts with 'audio/', holds
\* no 'audio/audio/' and no '//', and normalising it again changes nothing.
C16_NormalizeCanonical ==
    /\ Len(audioUri) >= 2 =>
           /\ StartsWith(audioUri[2], AUDIO_SLASH)
           /\ ~Includes(audioUri[2], AUDIO_SLASH \o AUDIO_SLASH)
           /\ ~Includes(audioUri[2], <<"/","/">>)
    /\ Len(audioUri) = 3 => audioUri[3] = audioUri[2]

----------------------------------------------------------------------------
(* Quoted attribute values of the attached declarations.                   *)

\* The declaration of a track with every quoted value escaped.
EscapedDeclLine(kind, track) ==
    IF kind = "audio"
    THEN MediaDeclLine(T_AUDIO, <<"a","u","d","i","o">>, escapeValue(track.label),
                       escapeValue(track.language), track.isDefault,
                       escapeValue(normalizeAudioUri(
                           IF track.uri # <<>> THEN track.uri
                           ELSE generateAudioUri(track.id))))
    ELSE MediaDeclLine(T_SUBTITLES, <<"s","u","b","s">>, escapeValue(track.label),
                       escapeValue(track.language), track.isDefault,
                       escapeValue(subtitlePlaylistUri(track.language)))

\* C17: the stored manifest holds, for every track an attach operation was
\* given, its EXT-X-MEDIA line with backslash, double quote, newline,
\* carriage return and tab escaped in every quoted value.
C17_AttachedValuesEscaped ==
    \A a \in 1..Len(attached) :
        \A t \in 1..Len(attached[a].tracks) :
            \E k \in 1..Len(masterFile) :
                masterFile[k] = EscapedDeclLine(attached[a].kind, attached[a].tracks[t])

----------------------------------------------------------------------------
(* M3U8Builder on its own: add, clear and build calls.                     *)

MaxBuilds == 2

\* An absent numeric field is 0 and an absent text field is <<>>.
trackNoGroup == MediaTrack(T_AUDIO, <<>>, <<"E","n">>, l_en, "undefined", u_audio_en)
trackBadType == MediaTrack(<<"D","A","T","A">>, g_audio, <<"E","n">>, l_en, "undefined", u_audio_en)
streamNegative == StreamInfo(0 - 500000, s640x360, <<>>, <<>>, u_360)
streamNoUri == StreamInfo(1000000, s854x480, <<>>, <<>>, <<>>)
streamBlankUri == StreamInfo(1000000, s854x480, <<>>, <<>>, <<" "," ">>)
streamBadResolution == StreamInfo(1000000, <<"8","5","4","*","4","8","0">>, <<>>, <<>>, u_480)
streamNoResolution == StreamInfo(1000000, <<>>, <<>>, <<>>, u_480)
streamHashUri == StreamInfo(3000000, <<>>, <<>>, <<>>, <<"#","h","d",".","m","3","u","8">>)

MediaTrackCalls == {trackAudioEn, trackSubsEs, trackNoName, trackNoGroup, trackBadType}
StreamInfoCalls ==
    {stream360, stream720, streamNoBandwidth, streamNegative, streamNoUri,
     streamBlankUri, streamBadResolution, streamNoResolution, streamHashUri}

getStats(b) ==
    LET IsType(type) == { i \in 1..Len(b.mediaTracks) : b.mediaTracks[i].type = type }
    IN  [mediaTracks |-> Len(b.mediaTracks),
         streamInfos |-> Len(b.streamInfos),
         audioTracks |-> Cardinality(IsType(T_AUDIO)),
         subtitleTracks |-> Cardinality(IsType(T_SUBTITLES)),
         videoTracks |-> Cardinality(IsType(T_VIDEO))]

\* build() sorting this.streamInfos itself instead of a copy.
Build_sortInPlace ==
    /\ Len(built) < MaxBuilds
    /\ built' = Append(built, WriteFile(build(builder)))
    /\ builder' = [builder EXCEPT !.streamInfos = sortedStreams(@)]
    /\ UNCHANGED <<convVars, masterFile, attached, served, optVars,
                   demoFile, audioCache, responses, audioUri>>

\* build(): the text is returned; the streams are sorted in a copy.
Build ==
    /\ Len(built) < MaxBuilds
    /\ built' = Append(built, WriteFile(build(builder)))
    /\ UNCHANGED <<convVars, masterFile, builder, attached, served, optVars,
                   demoFile, audioCache, responses, audioUri>>

\* The exported validateM3U8Content(content): the lines (1-based) of the
\* errors it reports.
validateM3U8Content(lines) ==
    LET headerError == IF Len(lines) = 0 \/ lines[1] # EXTM3U THEN {0} ELSE {}
        streamErrors ==
            { i \in 1..Len(lines) :
                /\ StartsWith(lines[i], EXT_X_STREAM_INF \o <<":">>)
                /\ \/ i + 1 > Len(lines)
                   \/ StartsWith(lines[i + 1], <<"#">>) }
    IN  [isValid |-> headerError \cup streamErrors = {},
         errors |-> headerError \cup streamErrors]

InitBuilder ==
    /\ InitConv
    /\ InitIo
    /\ resolutions = <<>>
    /\ masterFile = <<>>
    /\ builder = NoBuilder
    /\ attached = <<>>
    /\ served = <<>>
    /\ optIn = <<>>
    /\ optOnce = <<>>
    /\ optTwice = <<>>

NextBuilderCalls ==
    \/ \E track \in MediaTrackCalls : addMediaTrack(track)
    \/ \E streamInfo \in StreamInfoCalls : addStreamInfo(streamInfo)
    \/ clear
    \/ Build

SpecBuilder == InitBuilder /\ [][NextBuilderCalls]_vars

\* A stream the builder has to refuse: bandwidth zero, missing or
\* negative, uri empty or blank, or a resolution that is given and is not
\* digits 'x' digits.
StreamRefusable(streamInfo) ==
    \/ streamInfo.bandwidth <= 0
    \/ streamInfo.uri = <<>>
    \/ \A i \in 1..Len(streamInfo.uri) : streamInfo.uri[i] \in {" ", "\t", "\n", "\r"}
    \/ /\ streamInfo.resolution # <<>>
       /\ ~IsResolution(streamInfo.resolution)

\* A media track the builder has to refuse.
TrackRefusable(track) ==
    \/ track.type \notin {T_AUDIO, T_VIDEO, T_SUBTITLES, <<"C","L","O","S","E","D","-","C","A","P","T","I","O","N","S">>}
    \/ track.groupId = <<>>
    \/ track.name = <<>>

\* The call threw and the builder is as it was.
Refused ==
    /\ builder'.threw
    /\ builder'.mediaTracks = builder.mediaTracks
    /\ builder'.streamInfos = builder.streamInfos
    /\ getStats(builder') = getStats(builder)
    /\ build(builder') = build(builder)

\* C18: an addStreamInfo call with a refusable stream and an addMediaTrack
\* call with a refusable track throw, and a call that throws leaves the
\* media tracks, the streams, getStats and the build output as they were.
C18_RefusedCallsChangeNothing ==
    [][/\ \A streamInfo \in StreamInfoCalls :
              (addStreamInfo(streamInfo) /\ StreamRefusable(streamInfo)) => Refused
       /\ \A track \in MediaTrackCalls :
              (addMediaTrack(track) /\ TrackRefusable(track)) => Refused
       /\ builder'.threw => Refused]_vars

\* A call was refused by a builder that holds a track and a stream.
C18_Witness ==
    /\ builder.threw
    /\ Len(builder.mediaTracks) > 0
    /\ Len(builder.streamInfos) > 0

\* C19: the text built from any builder state passes validateM3U8Content
\* with no error.
C19_BuildValidates ==
    LET result == validateM3U8Content(WriteFile(build(builder)))
    IN  result.isValid /\ result.errors = {}

\* C20: a build call leaves the media tracks, the streams and getStats as
\* they were, and returns the text every build call returned since the
\* last add or clear.
C20_BuildReadOnly ==
    [][(built' # built /\ built' # <<>>) =>
          /\ builder'.mediaTracks = builder.mediaTracks
          /\ builder'.streamInfos = builder.streamInfos
          /\ getStats(builder') = getStats(builder)
          /\ \A i \in 1..Len(built) : built'[Len(built')] = built[i]]_vars

\* Two builds in a row of a builder whose streams were added in
\* descending bandwidth order.
C20_Witness ==
    /\ Len(built) = 2
    /\ built[1] = built[2]
    /\ Len(builder.mediaTracks) > 0
    /\ Len(builder.streamInfos) = 2
    /\ builder.streamInfos[1].bandwidth > builder.streamInfos[2].bandwidth

----------------------------------------------------------------------------
(* Planning of one converter over several sources.                         *)

\* options.resolutions in configured order, sorted by name or not.
PlanConfiguredLists ==
    { <<Rendition(n720p, s1280x720, b1500k), Rendition(n360p, s640x360, b800k)>>,
      <<Rendition(n360p, s640x360, b800k), Rendition(n720p, s1280x720, b1500k)>>,
      <<Rendition(<<"s","d">>, s854x480, b1200k)>>,
      <<Rendition(n480p, s854x480, b1200k)>> }

\* Outcomes of the ffprobe call; 0 stands for a dimension that is unset.
PlanSources ==
    { [width |-> 854, height |-> 480, bitrate |-> b1100k],
      [width |-> 1280, height |-> 720, bitrate |-> b1100k],
      [width |-> 0, height |-> 480, bitrate |-> b1100k],
      [width |-> 854, height |-> 0, bitrate |-> b1100k],
      [width |-> 0 - 854, height |-> 480, bitrate |-> b1100k],
      [width |-> 854, height |-> 0 - 480, bitrate |-> b1100k] }

InitPlan ==
    /\ resolutions \in PlanConfiguredLists
    /\ phase = "idle"
    /\ metadata = NoMetadata
    /\ targetResolutions = <<>>
    /\ processingPromises = <<>>
    /\ successfulResults = <<>>
    /\ errors = 0
    /\ rejection = NoRejection
    /\ calls = 0
    /\ InitIo
    /\ masterFile = <<>>
    /\ builder = NoBuilder
    /\ attached = <<>>
    /\ served = <<>>
    /\ optIn = <<>>
    /\ optOnce = <<>>
    /\ optTwice = <<>>

NextPlan ==
    \/ \E dirOk \in BOOLEAN : ConvertCall(dirOk)
    \/ ProbeError
    \/ ProbeNoVideoStream
    \/ \E md \in PlanSources : ProbeReturn(md)
    \/ \E i \in 1..Len(processingPromises) : JobRun(i)
    \/ \E i \in 1..Len(processingPromises) : JobDirFailed(i)
    \/ \E i \in 1..Len(processingPromises) : JobEnd(i)
    \/ \E i \in 1..Len(processingPromises) : JobError(i)
    \/ \E writeOk \in BOOLEAN : Settle(writeOk)

SpecPlan == InitPlan /\ [][NextPlan]_vars

\* C21: the planned renditions, which are the encode jobs in submission
\* order, are sorted ascending by the numeric prefix of their names.
C21_PlanSortedByName ==
    phase = "awaiting" =>
        \A i, j \in 1..Len(targetResolutions) :
            (/\ i < j
             /\ ~ParseInt(targetResolutions[i].name).nan
             /\ ~ParseInt(targetResolutions[j].name).nan)
            => ParseInt(targetResolutions[i].name).n <= ParseInt(targetResolutions[j].name).n

\* C22: a call whose probed width or height is unset, zero or negative is
\* rejected with the metadata error, with no encode job started and no
\* result to write a manifest from.
C22_InvalidSourceRejected ==
    (phase \notin {"idle", "probing", "hung"} /\ rejection.kind # "mkdir"
     /\ (metadata.width <= 0 \/ metadata.height <= 0)) =>
        /\ phase = "rejected"
        /\ rejection.kind = "metadata"
        /\ processingPromises = <<>>
        /\ successfulResults = <<>>

\* C28: no configured rendition is ever flagged as the original, and a
\* planned rendition flagged as the original has the frame size of the
\* source of the call.
C28_PlanLeavesConfiguration ==
    /\ \A i \in 1..Len(resolutions) : ~resolutions[i].isOriginal
    /\ phase = "awaiting" =>
           \A i \in 1..Len(targetResolutions) :
               targetResolutions[i].isOriginal =>
                   targetResolutions[i].size = SizeOf(metadata)

----------------------------------------------------------------------------
(* The converter under fair scheduling of callbacks.                       *)

\* The probe eventually calls back, every setup step eventually succeeds
\* or fails, every started encode eventually signals end or error, and a
\* call whose awaited promises are settled is resumed.
\* Indices of the jobs a call can submit: the configured renditions and
\* the source's own.
JobIds == UNION { 1..(Len(c) + 1) : c \in ConfiguredLists }

Fairness ==
    /\ WF_vars(ProbeError \/ ProbeNoVideoStream \/ (\E md \in Sources : ProbeReturn(md)))
    /\ \A i \in JobIds : WF_vars(JobRun(i) \/ JobDirFailed(i))
    /\ \A i \in JobIds : WF_vars(JobEnd(i) \/ JobError(i))
    /\ WF_vars(\E writeOk \in BOOLEAN : Settle(writeOk))

SpecFair == Init /\ [][Next]_vars /\ Fairness

\* C27: every convertToHls call that was entered eventually settles,
\* resolved with a result or rejected with an error.
C27_EveryCallSettles ==
    (phase \in {"probing", "awaiting"}) ~> (phase \in {"resolved", "rejected"})

----------------------------------------------------------------------------
(* Where an attach call puts its declarations.                             *)

\* The declarations of an attach call, in the order given.
DeclsOf(call) ==
    IF call.kind = "audio" THEN MapAudioLines(call.tracks)
    ELSE MapSubtitleLines(call.tracks)

\* C23: an attach call on a manifest with a version tag puts its
\* declarations, in the order given, on the lines right after the
\* #EXT-X-VERSION line, and the lines of the manifest before the call
\* follow in their order (a variant line may have gained a group
\* reference).
C23_DeclsAfterVersion ==
    [][(attached' # attached /\ versionIndex(masterFile) # 0) =>
          LET decls == DeclsOf(attached'[Len(attached')])
              v == versionIndex(masterFile)
              n == Len(decls)
              rest == SubSeq(masterFile', 1, v)
                      \o SubSeq(masterFile', v + n + 1, Len(masterFile'))
          IN  /\ Len(masterFile') = Len(masterFile) + n
              /\ SubSeq(masterFile', v + 1, v + n) = decls
              /\ \A i \in 1..Len(masterFile) :
                     rest[i] \in {masterFile[i], withAudioRef(masterFile[i]),
                                  withSubtitlesRef(masterFile[i])}]_vars

\* Two attach calls with declarations were made one after the other: the
\* declarations of the later call stand before those of the earlier one.
C23_Witness ==
    /\ Len(attached) = 2
    /\ attached[1].tracks # <<>>
    /\ Len(attached[2].tracks) = 2
    /\ versionIndex(masterFile) # 0
    /\ SubSeq(masterFile, versionIndex(masterFile) + 1, versionIndex(masterFile) + 2)
           = DeclsOf(attached[2])
    /\ masterFile[versionIndex(masterFile) + 3] = DeclsOf(attached[1])[1]

----------------------------------------------------------------------------
(* Media declarations in the optimizer's output.                           *)

LanguageAttrOf(line) == MatchQuoted(line, <<"L","A","N","G","U","A","G","E">>, 1)

\* C24: the text returned by the optimizer holds no two EXT-X-MEDIA
\* declarations, of whatever type, with the same LANGUAGE and URI.
C24_NoRepeatedMediaKey ==
    LET m == MediaDeclLines(served)
    IN  \A i, j \in 1..Len(m) :
            (/\ i < j
             /\ LanguageAttrOf(m[i]).found /\ UriOf(m[i]).found
             /\ LanguageAttrOf(m[j]).found /\ UriOf(m[j]).found)
            => <<LanguageAttrOf(m[i]).value, UriOf(m[i]).value>>
                   # <<LanguageAttrOf(m[j]).value, UriOf(m[j]).value>>

----------------------------------------------------------------------------
(* The optimizer on manifests whose variant lines are each followed by     *)
(* their URI line.                                                         *)

MaxOptUnits == 3

optVersion == EXT_X_VERSION \o <<":","3">>
\* Two variants whose lines and URIs differ and whose texts joined by '_'
\* are the same.
optStreamLow == optStream \o <<",","N","A","M","E","=","l","o","w">>
optUriLow == <<"h","d","_","v",".","m","3","u","8">>
optStreamLowHd == optStreamLow \o <<"_","h","d">>
optUriOther == <<"w",".","m","3","u","8">>

\* Pieces a manifest is put together from: single lines and
\* (STREAM-INF, URI) pairs.
OptUnits ==
    { <<EXTM3U>>, <<optVersion>>, <<optAudio>>, <<optBlank>>,
      <<optStream, optUri>>, <<optStream, optUriOther>>,
      <<optStreamLow, optUriLow>>, <<optStreamLowHd, optUri>> }

PairedInputs ==
    UNION { { Concat(us) : us \in [1..n -> OptUnits] } : n \in 1..MaxOptUnits }

InitOptPaired ==
    /\ InitConv
    /\ InitIo
    /\ resolutions = <<>>
    /\ masterFile = <<>>
    /\ builder = NoBuilder
    /\ attached = <<>>
    /\ served = <<>>
    /\ optIn \in PairedInputs
    /\ optOnce = <<>>
    /\ optTwice = <<>>

SpecOptPaired == InitOptPaired /\ [][NextOpt]_vars

\* Every EXT-X-STREAM-INF line is immediately followed by a URI line that
\* is not a tag.
WellPaired(lines) ==
    \A i \in 1..Len(lines) :
        IsStreamInf(lines[i]) =>
            /\ i + 1 <= Len(lines)
            /\ lines[i + 1] # <<>>
            /\ ~StartsWith(lines[i + 1], <<"#">>)

\* The text without the repeats: a (STREAM-INF, URI) pair already seen and
\* an audio declaration whose (language, uri) was already seen are left
\* out, every other line is kept.
RECURSIVE WithoutRepeats(_, _, _, _)
WithoutRepeats(lines, i, pairs, decls) ==
    IF i > Len(lines) THEN <<>>
    ELSE IF IsStreamInf(lines[i])
    THEN (IF <<lines[i], lines[i + 1]>> \in pairs THEN <<>>
          ELSE <<lines[i], lines[i + 1]>>)
         \o WithoutRepeats(lines, i + 2, pairs \cup {<<lines[i], lines[i + 1]>>}, decls)
    ELSE IF /\ StartsWith(lines[i], EXT_X_MEDIA \o <<":","T","Y","P","E","=","A","U","D","I","O">>)
            /\ LanguageAttrOf(lines[i]).found /\ UriOf(lines[i]).found
    THEN LET key == <<LanguageAttrOf(lines[i]).value, UriOf(lines[i]).value>>
         IN  (IF key \in decls THEN <<>> ELSE <<lines[i]>>)
             \o WithoutRepeats(lines, i + 1, pairs, decls \cup {key})
    ELSE <<lines[i]>> \o WithoutRepeats(lines, i + 1, pairs, decls)

\* C25: on a manifest whose variant lines are each followed by their URI
\* line, the optimizer returns the text with every distinct
\* (STREAM-INF, URI) pair once, at its first occurrence, and with every
\* line that is not a dropped repeat in its place.
C25_PairsKeptOnce ==
    (optOnce # <<>> /\ WellPaired(optIn)) => optOnce = WithoutRepeats(optIn, 1, {}, {})

----------------------------------------------------------------------------
(* Relative URIs after the rewrite pass.                                   *)

\* Stored manifests of the requests: those above, one with a declaration
\* whose NAME holds the word http, and one whose variant URI is relative
\* and names an absolute URI in its query.
RewriteManifests ==
    ServedManifests \cup
    {
      << EXTM3U, <<"#","E","X","T","-","X","-","V","E","R","S","I","O","N",":","3">>,
         <<"#","E","X","T","-","X","-","M","E","D","I","A",":","T","Y","P","E","=","A","U","D","I","O",",","G","R","O","U","P","-","I","D","=","\"","a","u","d","i","o","\"",",","N","A","M","E","=","\"","E","n"," ","(","h","t","t","p"," ","r","a","d","i","o",")","\"",",","L","A","N","G","U","A","G","E","=","\"","e","n","\"",",","U","R","I","=","\"","a","u","d","i","o","/","e","n",".","m","3","u","8","\"">>,
         <<"#","E","X","T","-","X","-","S","T","R","E","A","M","-","I","N","F",":","B","A","N","D","W","I","D","T","H","=","5","0","0","0","0","0",",","A","U","D","I","O","=","\"","a","u","d","i","o","\"">>,
         <<"3","6","0","p","/","p","l","a","y","l","i","s","t",".","m","3","u","8">> >>,
      << EXTM3U, <<"#","E","X","T","-","X","-","V","E","R","S","I","O","N",":","3">>,
         <<"#","E","X","T","-","X","-","S","T","R","E","A","M","-","I","N","F",":","B","A","N","D","W","I","D","T","H","=","5","0","0","0","0","0">>,
         <<"p","l","a","y",".","m","3","u","8","?","s","r","c","=","h","t","t","p",":","/","/","l","o","c","a","l","h","o","s","t",":","3","0","0","0","/","e","x","a","m","p","l","e","-","o","u","t","p","u","t","/","v","1","/","3","6","0","p",".","m","3","u","8">> >> }

InitRewrite ==
    /\ InitConv
    /\ resolutions = <<>>
    /\ masterFile \in RewriteManifests
    /\ demoFile \in DemoManifests
    /\ builder = NoBuilder
    /\ attached = <<>>
    /\ served = <<>>
    /\ optIn = <<>>
    /\ optOnce = <<>>
    /\ optTwice = <<>>
    /\ audioCache = {}
    /\ responses = <<>>
    /\ audioUri = <<>>
    /\ built = <<>>

\* Requests for any video on a stored manifest that is not written to.
NextRewrite == \E id \in VideoIds : ServeMaster(id)

SpecRewrite == InitRewrite /\ [][NextRewrite]_vars

\* A URI that is neither absolute nor rooted.
IsRelative(uri) ==
    /\ uri # <<>>
    /\ ~StartsWith(uri, <<"h","t","t","p">>)
    /\ ~StartsWith(uri, <<"/">>)

\* A line that holds the URI of a variant: not blank and not a tag.
IsUriLine(line) == ~IsBlank(line) /\ ~StartsWith(line, <<"#">>)

\* C26: after the rewrite pass of a served manifest, the URI attribute of
\* every EXT-X-MEDIA line and every variant URI line that was relative in
\* the stored text starts with {requestBaseUrl}/.
C26_RelativeUrisPrefixed ==
    \A r \in 1..Len(responses) :
        responses[r].status = "ok" =>
            LET stored == responses[r].stored
                base == requestBaseUrl(responses[r].videoId)
                out == processM3U8Content(stored, base, responses[r].videoId)
            IN  \A k \in 1..Len(stored) :
                    /\ (IsMedia(stored[k]) /\ UriOf(stored[k]).found
                        /\ IsRelative(UriOf(stored[k]).value))
                       => StartsWith(UriOf(out[k]).value, base \o <<"/">>)
                    /\ (IsUriLine(stored[k]) /\ IsRelative(stored[k]))
                       => StartsWith(out[k], base \o <<"/">>)

\* C30: the rewrite pass applied to its own output, with the same
\* requestBaseUrl (which begins with '/') and videoId, returns that output.
C30_RewriteIdempotent ==
    \A r \in 1..Len(responses) :
        responses[r].status = "ok" =>
            LET base == requestBaseUrl(responses[r].videoId)
                once == processM3U8Content(responses[r].stored, base, responses[r].videoId)
            IN  processM3U8Content(once, base, responses[r].videoId) = once

----------------------------------------------------------------------------
(* Attach calls on a stored manifest without a version line.               *)

============================================================================
